---- MODULE Spec2Model ----
(***************************************************************************)
(* Model of the Snipe-IT API client (class SnipeAPI of SnipeITApi.py).     *)
(*                                                                         *)
(* Python values are records [kind, s, n, items]: kind is the name of the  *)
(* value's exact type (type(v).__name__), s the characters of a str, n     *)
(* the number of an int or a bool (True is 1) and ten times the number of  *)
(* a float (one decimal), items the elements of a list or the entries      *)
(* [k, v] of a dict in insertion order.  A str is a sequence of one        *)
(* character strings, so that parsing, lower() and str() work on           *)
(* characters.  Keys of the payload dicts are the literals of the source.  *)
(***************************************************************************)
EXTENDS Integers, Sequences, FiniteSets, TLC

VARIABLES server, token, headers, pc, op, args, dct, handed, sent, result

vars == <<server, token, headers, pc, op, args, dct, handed, sent, result>>

\* ------------------------------------------------------------ bounds

\* At most this many arguments of one call of a public method are not None.
MaxNonNull == 1

\* Lists given to the validators hold at most this many elements.
MaxListLen == 2

\* ------------------------------------------------------- Python values

None == [kind |-> "NoneType", s |-> <<>>, n |-> 0, items |-> <<>>]

PyStr(cs) == [kind |-> "str", s |-> cs, n |-> 0, items |-> <<>>]

PyInt(i) == [kind |-> "int", s |-> <<>>, n |-> i, items |-> <<>>]

PyBool(b) == [kind |-> "bool", s |-> <<>>, n |-> IF b THEN 1 ELSE 0, items |-> <<>>]

PyFloat(tenths) == [kind |-> "float", s |-> <<>>, n |-> tenths, items |-> <<>>]

PyList(xs) == [kind |-> "list", s |-> <<>>, n |-> 0, items |-> xs]

PyDict(entries) == [kind |-> "dict", s |-> <<>>, n |-> 0, items |-> entries]

\* type(v).__name__
type(v) == v.kind

\* bool(v): the truth value that `if v` and `a and b` test.
Truthy(v) ==
  CASE v.kind = "NoneType" -> FALSE
    [] v.kind \in {"bool", "int", "float"} -> v.n # 0
    [] v.kind = "str" -> v.s # <<>>
    [] OTHER -> v.items # <<>>

\* Mutant: two values of one type are equal.
PyEq_type(a, b) == a.kind = b.kind

\* a == b: numbers (bool, int, float) compare by value, all else by type and content.
PyEq(a, b) ==
  LET Tenths(v) == IF v.kind = "float" THEN v.n ELSE 10 * v.n
  IN IF a.kind \in {"bool", "int", "float"} /\ b.kind \in {"bool", "int", "float"}
     THEN Tenths(a) = Tenths(b)
     ELSE a = b

\* x in l, for a list l
PyIn(x, l) == \E i \in DOMAIN l.items : PyEq(x, l.items[i])

Digits == <<"0", "1", "2", "3", "4", "5", "6", "7", "8", "9">>

RECURSIVE IntChars(_)
IntChars(i) ==
  IF i < 0 THEN <<"-">> \o IntChars(-i)
  ELSE IF i < 10 THEN <<Digits[i + 1]>>
  ELSE IntChars(i \div 10) \o <<Digits[(i % 10) + 1]>>

FloatChars(tenths) ==
  IF tenths < 0 THEN <<"-">> \o IntChars((-tenths) \div 10) \o <<".", Digits[((-tenths) % 10) + 1]>>
  ELSE IntChars(tenths \div 10) \o <<".", Digits[(tenths % 10) + 1]>>

\* The characters of the keys that get_accessories puts in the mapping it turns into a string.
KeyChars(k) ==
  CASE k = "limit" -> <<"l", "i", "m", "i", "t">>
    [] k = "offset" -> <<"o", "f", "f", "s", "e", "t">>
    [] k = "search" -> <<"s", "e", "a", "r", "c", "h">>
    [] k = "order_number" -> <<"o", "r", "d", "e", "r", "_", "n", "u", "m", "b", "e", "r">>
    [] k = "sort" -> <<"s", "o", "r", "t">>
    [] k = "order" -> <<"o", "r", "d", "e", "r">>
    [] k = "expand" -> <<"e", "x", "p", "a", "n", "d">>

RECURSIVE Join(_, _)
Join(parts, sep) ==
  IF parts = <<>> THEN <<>>
  ELSE IF Len(parts) = 1 THEN parts[1]
  ELSE parts[1] \o sep \o Join(Tail(parts), sep)

\* str(v) and repr(v).  The strings of the model hold neither quotes nor
\* backslashes, so repr of a str is the str between single quotes.
RECURSIVE str(_), repr(_)
str(v) ==
  CASE v.kind = "NoneType" -> <<"N", "o", "n", "e">>
    [] v.kind = "bool" -> IF v.n = 1 THEN <<"T", "r", "u", "e">> ELSE <<"F", "a", "l", "s", "e">>
    [] v.kind = "int" -> IntChars(v.n)
    [] v.kind = "float" -> FloatChars(v.n)
    [] v.kind = "str" -> v.s
    [] v.kind = "list" ->
         <<"[">> \o Join([i \in DOMAIN v.items |-> repr(v.items[i])], <<",", " ">>) \o <<"]">>
    [] v.kind = "dict" ->
         <<"{">> \o Join([i \in DOMAIN v.items |->
                            <<"'">> \o KeyChars(v.items[i].k) \o <<"'", ":", " ">> \o repr(v.items[i].v)],
                         <<",", " ">>) \o <<"}">>

repr(v) == IF v.kind = "str" THEN <<"'">> \o v.s \o <<"'">> ELSE str(v)

\* s.lower()
lower(cs) ==
  LET LowerChar(c) ==
      CASE c = "A" -> "a" [] c = "B" -> "b" [] c = "C" -> "c" [] c = "D" -> "d" [] c = "E" -> "e"
        [] c = "F" -> "f" [] c = "G" -> "g" [] c = "H" -> "h" [] c = "I" -> "i" [] c = "J" -> "j"
        [] c = "K" -> "k" [] c = "L" -> "l" [] c = "M" -> "m" [] c = "N" -> "n" [] c = "O" -> "o"
        [] c = "P" -> "p" [] c = "Q" -> "q" [] c = "R" -> "r" [] c = "S" -> "s" [] c = "T" -> "t"
        [] c = "U" -> "u" [] c = "V" -> "v" [] c = "W" -> "w" [] c = "X" -> "x" [] c = "Y" -> "y"
        [] c = "Z" -> "z" [] OTHER -> c
  IN [i \in DOMAIN cs |-> LowerChar(cs[i])]

\* fmt.format(*vals): the template and the str() of each value it is filled with.
format(fmt, vals) == [fmt |-> fmt, args |-> [i \in DOMAIN vals |-> str(vals[i])]]

\* ----------------------------------------------------------- outcomes

\* How a call ends: it returns value, or raises exc with message msg.
Returns(value) == [exc |-> "none", msg |-> [fmt |-> "", args |-> <<>>], value |-> value]

Raises(exc, msg) == [exc |-> exc, msg |-> msg, value |-> None]

\* ------------------------------------------------- Precondition Methods

_precondition_error(s) == Raises("ValueError", s)

_precondition_str(s) ==
  IF s = None THEN Returns(None)
  ELSE IF type(s) # "str" THEN _precondition_error(format("{} is not a string!", <<s>>))
  ELSE Returns(None)

\* Mutant: isinstance(i, int) in place of type(i) != int, which lets a bool through.
_precondition_int_isinstance(i) ==
  IF i = None THEN Returns(None)
  ELSE IF type(i) \notin {"int", "bool"} THEN _precondition_error(format("{} is not a string!", <<i>>))
  ELSE Returns(None)

_precondition_int(i) ==
  IF i = None THEN Returns(None)
  ELSE IF type(i) # "int" THEN _precondition_error(format("{} is not a string!", <<i>>))
  ELSE Returns(None)

_precondition_float(f) ==
  IF f = None THEN Returns(None)
  ELSE IF type(f) # "float" THEN _precondition_error(format("{} is not a float!", <<f>>))
  ELSE Returns(None)

_precondition_bool(b) ==
  IF b = None THEN Returns(None)
  ELSE IF type(b) # "bool" THEN _precondition_error(format("{} is not a boolean!", <<b>>))
  ELSE Returns(None)

\* Mutant: the comparison with the accepted values ignores letter case.
_precondition_enum_nocase(s, enum) ==
  IF s = None THEN Returns(None)
  ELSE IF \E i \in DOMAIN enum.items : s.kind = "str" /\ lower(s.s) = lower(enum.items[i].s) THEN Returns(None)
  ELSE _precondition_error(format("{} is not in the accepted values list: {}!", <<s, enum>>))

_precondition_enum(s, enum) ==
  IF s = None THEN Returns(None)
  ELSE IF PyIn(s, enum) THEN Returns(None)
  ELSE _precondition_error(format("{} is not in the accepted values list: {}!", <<s, enum>>))

\* datetime.datetime.strptime(d, '%Y-%m-%d'), as CPython's _strptime does it:
\* the format becomes the regular expression
\*   (?P<Y>\d\d\d\d)-(?P<m>1[0-2]|0[1-9]|[1-9])-(?P<d>3[0-1]|[1-2]\d|0[1-9]|[1-9]| [1-9])
\* which is matched at the start of the string, the alternatives in order;
\* characters left after the match, and a day the month does not have, are errors.
IsDigit(c) == \E i \in 1..10 : Digits[i] = c

At(cs, p) == IF p \in 1..Len(cs) THEN cs[p] ELSE ""

\* The lengths matched by the alternatives of (?P<m>...) at p, in the order they are tried.
MatchMonth(cs, p) ==
  (IF At(cs, p) = "1" /\ At(cs, p + 1) \in {"0", "1", "2"} THEN <<2>> ELSE <<>>)
  \o (IF At(cs, p) = "0" /\ IsDigit(At(cs, p + 1)) /\ At(cs, p + 1) # "0" THEN <<2>> ELSE <<>>)
  \o (IF IsDigit(At(cs, p)) /\ At(cs, p) # "0" THEN <<1>> ELSE <<>>)

\* The length matched by the first alternative of (?P<d>...) that matches at p, 0 when none does.
MatchDay(cs, p) ==
  IF At(cs, p) = "3" /\ At(cs, p + 1) \in {"0", "1"} THEN 2
  ELSE IF At(cs, p) \in {"1", "2"} /\ IsDigit(At(cs, p + 1)) THEN 2
  ELSE IF At(cs, p) = "0" /\ IsDigit(At(cs, p + 1)) /\ At(cs, p + 1) # "0" THEN 2
  ELSE IF IsDigit(At(cs, p)) /\ At(cs, p) # "0" THEN 1
  ELSE IF At(cs, p) = " " /\ IsDigit(At(cs, p + 1)) /\ At(cs, p + 1) # "0" THEN 2
  ELSE 0

\* int(cs[p .. p+len-1]); int() strips the blank of a day such as " 5".
RECURSIVE ToInt(_, _, _)
ToInt(cs, p, len) ==
  IF len = 0 THEN 0
  ELSE IF At(cs, p + len - 1) = " " THEN ToInt(cs, p, len - 1)
  ELSE 10 * ToInt(cs, p, len - 1) + (CHOOSE i \in 0..9 : Digits[i + 1] = At(cs, p + len - 1))

\* Mutant: every month has 31 days.
IsDate_31(year, month, day) == year \in 1..9999 /\ month \in 1..12 /\ day \in 1..31

\* datetime.date(year, month, day) accepts these.
IsDate(year, month, day) ==
  LET IsLeap == year % 4 = 0 /\ (year % 100 # 0 \/ year % 400 = 0)
      DaysInMonth == IF month = 2 THEN (IF IsLeap THEN 29 ELSE 28)
                     ELSE IF month \in {4, 6, 9, 11} THEN 30
                     ELSE 31
  IN year \in 1..9999 /\ month \in 1..12 /\ day \in 1..DaysInMonth

\* The match of the regular expression: [ok, end, Y, m, d].
NoMatch == [ok |-> FALSE, end |-> 0, Y |-> 0, m |-> 0, d |-> 0]

MatchFrom(cs, ml) ==
  LET dl == MatchDay(cs, 6 + ml + 1)
  IN IF At(cs, 6 + ml) = "-" /\ dl > 0
     THEN [ok |-> TRUE, end |-> 6 + ml + dl,
           Y |-> ToInt(cs, 1, 4), m |-> ToInt(cs, 6, ml), d |-> ToInt(cs, 6 + ml + 1, dl)]
     ELSE NoMatch

RECURSIVE FirstMatch(_, _)
FirstMatch(cs, mls) ==
  IF mls = <<>> THEN NoMatch
  ELSE IF MatchFrom(cs, Head(mls)).ok THEN MatchFrom(cs, Head(mls))
  ELSE FirstMatch(cs, Tail(mls))

strptime(d) ==
  IF type(d) # "str"
  THEN Raises("TypeError", format("strptime() argument 1 must be str", <<>>))
  ELSE LET cs == d.s
           found == IF (\A i \in 1..4 : IsDigit(At(cs, i))) /\ At(cs, 5) = "-"
                    THEN FirstMatch(cs, MatchMonth(cs, 6)) ELSE NoMatch
       IN IF ~found.ok
          THEN Raises("ValueError", format("time data does not match format", <<>>))
          ELSE IF found.end # Len(cs)
          THEN Raises("ValueError", format("unconverted data remains", <<>>))
          ELSE IF ~IsDate(found.Y, found.m, found.d)
          THEN Raises("ValueError", format("day is out of range for month", <<>>))
          ELSE Returns(None)

\* Mutant: the test for None is missing, so None goes to strptime.
_precondition_date_no_none(d) ==
  IF strptime(d).exc = "ValueError" THEN _precondition_error(format("{} is not a date!", <<d>>))
  ELSE strptime(d)

_precondition_date(d) ==
  IF d = None THEN Returns(None)
  ELSE LET parsed == strptime(d)
       IN IF parsed.exc = "ValueError"
          THEN _precondition_error(format("{} is not a date!", <<d>>))
          ELSE parsed

\* The first of the outcomes that raises, in order; it returns when none does.
RECURSIVE FirstRaised(_)
FirstRaised(outcomes) ==
  IF outcomes = <<>> THEN Returns(None)
  ELSE IF Head(outcomes).exc # "none" THEN Head(outcomes)
  ELSE FirstRaised(Tail(outcomes))

_precondition_list(l, item_type) ==
  IF l = None THEN Returns(None)
  ELSE IF type(l) # "list" THEN _precondition_error(format("{} is not a list!", <<l>>))
  ELSE FirstRaised(
         (IF item_type = "str" THEN [i \in DOMAIN l.items |-> _precondition_str(l.items[i])] ELSE <<>>)
         \o (IF item_type = "int" THEN [i \in DOMAIN l.items |-> _precondition_int(l.items[i])] ELSE <<>>)
         \o (IF item_type = "bool" THEN [i \in DOMAIN l.items |-> _precondition_bool(l.items[i])] ELSE <<>>)
         \o (IF item_type = "date" THEN [i \in DOMAIN l.items |-> _precondition_date(l.items[i])] ELSE <<>>)
         \o (IF item_type = "float" THEN [i \in DOMAIN l.items |-> _precondition_float(l.items[i])] ELSE <<>>))

\* ----------------------------------------------------- Generic Helpers

HasKey(dict, k) == \E i \in DOMAIN dict.items : dict.items[i].k = k

\* dict[k]
GetItem(dict, k) == dict.items[CHOOSE i \in DOMAIN dict.items : dict.items[i].k = k].v

\* dict[k] = v: a key the dict holds keeps its place, a new key goes last.
SetItem(dict, k, v) ==
  IF HasKey(dict, k)
  THEN PyDict([i \in DOMAIN dict.items |->
                 IF dict.items[i].k = k THEN [k |-> k, v |-> v] ELSE dict.items[i]])
  ELSE PyDict(Append(dict.items, [k |-> k, v |-> v]))

\* Mutant: `v is not None` in place of the truth value of v, as the docstring has it.
_add_to_dict_not_none(dict, k, v) ==
  LET v1 == IF k = "expand" /\ Truthy(v) THEN PyStr(lower(str(v))) ELSE v
  IN IF k # "" /\ v1 # None THEN SetItem(dict, k, v1) ELSE dict

\* Mutant: the value of "expand" is stored as it is given.
_add_to_dict_no_lower(dict, k, v) ==
  IF k # "" /\ Truthy(v) THEN SetItem(dict, k, v) ELSE dict

\* Mutant: every field is stored, whatever its value.
_add_to_dict_always(dict, k, v) ==
  LET v1 == IF k = "expand" /\ Truthy(v) THEN PyStr(lower(str(v))) ELSE v
  IN IF k # "" THEN SetItem(dict, k, v1) ELSE dict

\* The dict after _add_to_dict(dict, k, v), which changes dict in place.
\* k is a literal of the source; `if k` is k # "".
_add_to_dict(dict, k, v) ==
  LET v1 == IF k = "expand" /\ Truthy(v) THEN PyStr(lower(str(v))) ELSE v
  IN IF k # "" /\ Truthy(v1) THEN SetItem(dict, k, v1) ELSE dict

\* -------------------------------------------------------- HTTP Methods

\* json.dumps(v): the JSON text, as its tokens.
RECURSIVE json_dumps(_)
json_dumps(v) ==
  CASE v.kind = "NoneType" -> [json |-> "null", text |-> <<>>, parts |-> <<>>]
    [] v.kind = "bool" -> [json |-> IF v.n = 1 THEN "true" ELSE "false", text |-> <<>>, parts |-> <<>>]
    [] v.kind = "int" -> [json |-> "number", text |-> IntChars(v.n), parts |-> <<>>]
    [] v.kind = "float" -> [json |-> "number", text |-> FloatChars(v.n), parts |-> <<>>]
    [] v.kind = "str" -> [json |-> "string", text |-> v.s, parts |-> <<>>]
    [] v.kind = "list" ->
         [json |-> "array", text |-> <<>>, parts |-> [i \in DOMAIN v.items |-> json_dumps(v.items[i])]]
    [] v.kind = "dict" ->
         [json |-> "object", text |-> <<>>,
          parts |-> [i \in DOMAIN v.items |-> [name |-> v.items[i].k, value |-> json_dumps(v.items[i].v)]]]

\* A request that goes without params= or data=.
Absent == [json |-> "absent", text |-> <<>>, parts |-> <<>>]

\* What the server answers to one request: the transport raises, or there is
\* a response with a status and a body that is JSON (a Python value once
\* parsed) or is not.
Response(status, body) == [raised |-> FALSE, status |-> status, is_json |-> TRUE, body |-> body]

\* Mutant: resp.raise_for_status() before resp.json().
json_raise_for_status(resp) ==
  IF resp.status >= 400 THEN Raises("HTTPError", format("{} Error", <<PyInt(resp.status)>>))
  ELSE IF resp.is_json THEN Returns(resp.body)
  ELSE Raises("JSONDecodeError", format("Expecting value", <<>>))

\* resp.json()
json(resp) ==
  IF resp.is_json THEN Returns(resp.body)
  ELSE Raises("JSONDecodeError", format("Expecting value", <<>>))

\* Mutant: the request goes to the path alone, without the server before it.
Exchange_bare_path(verb, path, payload, params, data, resp) ==
  [handed |-> <<[verb |-> verb, path |-> path, payload |-> payload]>>,
   sent |-> <<[verb |-> verb, url |-> <<PyStr(<<>>), path>>, params |-> params, data |-> data, resp |-> resp]>>,
   outcome |-> IF resp.raised THEN Raises("ConnectionError", format("connection failed", <<>>))
               ELSE json(resp)]

\* Mutant: a request whose transport fails is made a second time, and the call
\* returns None when that fails too.
Exchange_retry(verb, path, payload, params, data, resp) ==
  LET request == [verb |-> verb, url |-> <<server, path>>, params |-> params, data |-> data, resp |-> resp]
  IN [handed |-> <<[verb |-> verb, path |-> path, payload |-> payload]>>,
      sent |-> IF resp.raised THEN <<request, request>> ELSE <<request>>,
      outcome |-> IF resp.raised THEN Returns(None) ELSE json(resp)]

\* self._session.<verb>(url, params=..., data=...) followed by resp.json():
\* the wrapper's arguments, the request on the wire with the answer it got,
\* and how the call ends.
Exchange(verb, path, payload, params, data, resp) ==
  [handed |-> <<[verb |-> verb, path |-> path, payload |-> payload]>>,
   sent |-> <<[verb |-> verb, url |-> <<server, path>>, params |-> params, data |-> data, resp |-> resp]>>,
   outcome |-> IF resp.raised THEN Raises("ConnectionError", format("connection failed", <<>>))
               ELSE json(resp)]

\* Mutant: the test `if params` is missing, so params is always serialised.
_get_unguarded(path, params, resp) == Exchange("GET", path, params, json_dumps(params), Absent, resp)

_get(path, params, resp) ==
  IF Truthy(params) THEN Exchange("GET", path, params, json_dumps(params), Absent, resp)
  ELSE Exchange("GET", path, params, Absent, Absent, resp)

\* Mutant: the payload goes in params=, as _get sends it, and not in data=.
_post_in_params(path, payload, resp) ==
  IF Truthy(payload) THEN Exchange("POST", path, payload, json_dumps(payload), Absent, resp)
  ELSE Exchange("POST", path, payload, Absent, Absent, resp)

_post(path, payload, resp) ==
  IF Truthy(payload) THEN Exchange("POST", path, payload, Absent, json_dumps(payload), resp)
  ELSE Exchange("POST", path, payload, Absent, Absent, resp)

_put(path, payload, resp) ==
  IF Truthy(payload) THEN Exchange("PUT", path, payload, Absent, json_dumps(payload), resp)
  ELSE Exchange("PUT", path, payload, Absent, Absent, resp)

\* Mutant: the test `if payload` is missing, so an empty payload goes out as {}.
_patch_unguarded(path, payload, resp) == Exchange("PATCH", path, payload, Absent, json_dumps(payload), resp)

_patch(path, payload, resp) ==
  IF Truthy(payload) THEN Exchange("PATCH", path, payload, Absent, json_dumps(payload), resp)
  ELSE Exchange("PATCH", path, payload, Absent, Absent, resp)

\* Mutant: the test `if payload` is missing, so a body is always sent.
_delete_unguarded(path, payload, resp) == Exchange("DELETE", path, payload, Absent, json_dumps(payload), resp)

_delete(path, payload, resp) ==
  IF Truthy(payload) THEN Exchange("DELETE", path, payload, Absent, json_dumps(payload), resp)
  ELSE Exchange("DELETE", path, payload, Absent, Absent, resp)

\* The validators of a method run first, in order: the first that raises ends
\* the call, and the rest of the method runs when none does.
Guarded(checks, rest) ==
  IF FirstRaised(checks).exc # "none"
  THEN [handed |-> <<>>, sent |-> <<>>, outcome |-> FirstRaised(checks)]
  ELSE rest

\* A method that makes its request without returning what the wrapper returns.
Discard(run) ==
  IF run.outcome.exc = "none" THEN [run EXCEPT !.outcome = Returns(None)] ELSE run

\* The loop of the get_<resource>_by_name methods over found['rows']:
\*   for row in found['rows']:
\*       if row['name'] == name: return row
\*   return None
\* Mutant: the first row is returned, whatever its name.
FirstNamed_any(rows, name) ==
  IF rows = <<>> THEN Returns(None) ELSE Returns(Head(rows))

RECURSIVE FirstNamed(_, _)
FirstNamed(rows, name) ==
  IF rows = <<>> THEN Returns(None)
  ELSE IF type(Head(rows)) # "dict" THEN Raises("TypeError", format("indices must be integers", <<>>))
  ELSE IF ~HasKey(Head(rows), "name") THEN Raises("KeyError", format("name", <<>>))
  ELSE IF PyEq(GetItem(Head(rows), "name"), name) THEN Returns(Head(rows))
  ELSE FirstNamed(Tail(rows), name)

\* Mutant: after the list request, every row of the answer is fetched again
\* by a request of its own.
ByName_per_row(found, name) ==
  IF found.outcome.exc # "none" THEN found
  ELSE [found EXCEPT !.sent = found.sent \o found.sent, !.handed = found.handed \o found.handed]

\* Mutant: found.get('rows', []) in place of found['rows'], so an answer
\* without rows is searched as an empty list.
ByName_lenient(found, name) ==
  IF found.outcome.exc # "none" THEN found
  ELSE LET body == found.outcome.value
       IN [found EXCEPT !.outcome =
             IF type(body) # "dict" THEN Raises("TypeError", format("indices must be integers", <<>>))
             ELSE IF ~HasKey(body, "rows") THEN Returns(None)
             ELSE FirstNamed(GetItem(body, "rows").items, name)]

ByName(found, name) ==
  IF found.outcome.exc # "none" THEN found
  ELSE LET body == found.outcome.value
       IN [found EXCEPT !.outcome =
             IF type(body) # "dict" THEN Raises("TypeError", format("indices must be integers", <<>>))
             ELSE IF ~HasKey(body, "rows") THEN Raises("KeyError", format("rows", <<>>))
             ELSE IF type(GetItem(body, "rows")) # "list" THEN Raises("TypeError", format("not iterable", <<>>))
             ELSE FirstNamed(GetItem(body, "rows").items, name)]

\* ------------------------------------------ the lists of accepted values

Orders ==
  PyList(<<PyStr(<<"a", "s", "c">>),
           PyStr(<<"d", "e", "s", "c">>)>>)

StatusTypes ==
  PyList(<<PyStr(<<"d", "e", "p", "l", "o", "y", "a", "b", "l", "e">>),
           PyStr(<<"p", "e", "n", "d", "i", "n", "g">>),
           PyStr(<<"a", "r", "c", "h", "i", "v", "e", "d">>)>>)

CategoryTypes ==
  PyList(<<PyStr(<<"a", "s", "s", "e", "t">>),
           PyStr(<<"a", "c", "c", "e", "s", "s", "o", "r", "y">>),
           PyStr(<<"c", "o", "n", "s", "u", "m", "a", "b", "l", "e">>),
           PyStr(<<"c", "o", "m", "p", "o", "n", "e", "n", "t">>),
           PyStr(<<"l", "i", "c", "e", "n", "s", "e">>)>>)

Elements ==
  PyList(<<PyStr(<<"t", "e", "x", "t">>),
           PyStr(<<"l", "i", "s", "t", "b", "o", "x">>),
           PyStr(<<"t", "e", "x", "t", "a", "r", "e", "a">>)>>)

SortColumns ==
  PyList(<<PyStr(<<"i", "d">>),
           PyStr(<<"n", "a", "m", "e">>),
           PyStr(<<"a", "s", "s", "e", "t", "_", "t", "a", "g">>),
           PyStr(<<"s", "e", "r", "i", "a", "l">>),
           PyStr(<<"m", "o", "d", "e", "l">>),
           PyStr(<<"m", "o", "d", "e", "l", "_", "n", "u", "m", "b", "e", "r">>),
           PyStr(<<"l", "a", "s", "t", "_", "c", "h", "e", "c", "k", "o", "u", "t">>),
           PyStr(<<"c", "a", "t", "e", "g", "o", "r", "y">>),
           PyStr(<<"m", "a", "n", "u", "f", "a", "c", "t", "u", "r", "e", "r">>),
           PyStr(<<"n", "o", "t", "e", "s">>),
           PyStr(<<"e", "x", "p", "e", "c", "t", "e", "d", "_", "c", "h", "e", "c", "k", "i", "n">>),
           PyStr(<<"o", "r", "d", "e", "r", "_", "n", "u", "m", "b", "e", "r">>),
           PyStr(<<"c", "o", "m", "p", "a", "n", "y", "N", "a", "m", "e">>),
           PyStr(<<"l", "o", "c", "a", "t", "i", "o", "n">>),
           PyStr(<<"i", "m", "a", "g", "e">>),
           PyStr(<<"s", "t", "a", "t", "u", "s", "_", "l", "a", "b", "e", "l">>),
           PyStr(<<"a", "s", "s", "i", "g", "n", "e", "d", "_", "t", "o">>),
           PyStr(<<"c", "r", "e", "a", "t", "e", "d", "_", "a", "t">>),
           PyStr(<<"p", "u", "r", "c", "h", "a", "s", "e", "_", "d", "a", "t", "e">>),
           PyStr(<<"p", "u", "r", "c", "h", "a", "s", "e", "_", "c", "o", "s", "t">>)>>)

Formats ==
  PyList(<<PyStr(<<"A", "N", "Y">>),
           PyStr(<<"C", "U", "S", "T", "O", "M", " ", "R", "E", "G", "E", "X">>),
           PyStr(<<"A", "L", "P", "H", "A">>),
           PyStr(<<"A", "L", "P", "H", "A", "-", "D", "A", "S", "H">>),
           PyStr(<<"N", "U", "M", "E", "R", "I", "C">>),
           PyStr(<<"A", "L", "P", "H", "A", "-", "N", "U", "M", "E", "R", "I", "C">>),
           PyStr(<<"E", "M", "A", "I", "L">>),
           PyStr(<<"D", "A", "T", "E">>),
           PyStr(<<"U", "R", "L">>),
           PyStr(<<"I", "P">>),
           PyStr(<<"I", "P", "V", "4">>),
           PyStr(<<"I", "P", "V", "6">>),
           PyStr(<<"M", "A", "C">>),
           PyStr(<<"B", "O", "O", "L", "E", "A", "N">>)>>)

\* ------------------------------------------------------ public methods
\* One operator per public method: its arguments and the server's answer to
\* the request it makes give the wrapper call, the request and how it ends.

create_accessory(name, qty, category_id, order_number, purchase_cost, purchase_date, model_number, company_id, location_id, manufacturer_id, supplier_id, resp) ==
  LET payload0 == PyDict(<<[k |-> "name", v |-> name], [k |-> "qty", v |-> qty], [k |-> "category_id", v |-> category_id]>>)
      payload1 == _add_to_dict(payload0, "order_number", order_number)
      payload2 == _add_to_dict(payload1, "purchase_cost", purchase_cost)
      payload3 == _add_to_dict(payload2, "purchase_date", purchase_date)
      payload4 == _add_to_dict(payload3, "model_number", model_number)
      payload5 == _add_to_dict(payload4, "company_id", company_id)
      payload6 == _add_to_dict(payload5, "location_id", location_id)
      payload7 == _add_to_dict(payload6, "manufacturer_id", manufacturer_id)
      payload8 == _add_to_dict(payload7, "supplier_id", supplier_id)
      path0 == format("/api/v1/accessories", <<>>)
  IN Guarded(<<_precondition_str(name),
                _precondition_int(qty),
                _precondition_str(order_number),
                _precondition_float(purchase_cost),
                _precondition_str(purchase_date),
                _precondition_str(model_number),
                _precondition_int(category_id),
                _precondition_int(company_id),
                _precondition_int(location_id),
                _precondition_int(manufacturer_id),
                _precondition_int(supplier_id)>>,
             _post(path0, payload8, resp))

\* Mutant: the params are handed to _get as the mapping, without str(params).
get_accessories_mapping(limit, offset, search, order_number, sort, order, expand, resp) ==
  Guarded(<<_precondition_int(limit), _precondition_int(offset), _precondition_str(search),
            _precondition_str(order_number), _precondition_enum(sort, SortColumns),
            _precondition_enum(order, Orders), _precondition_bool(expand)>>,
          _get(format("/api/v1/accessories", <<>>),
               _add_to_dict(_add_to_dict(_add_to_dict(_add_to_dict(_add_to_dict(_add_to_dict(_add_to_dict(
                 PyDict(<<>>), "limit", limit), "offset", offset), "search", search),
                 "order_number", order_number), "sort", sort), "order", order), "expand", expand),
               resp))

get_accessories(limit, offset, search, order_number, sort, order, expand, resp) ==
  LET params0 == PyDict(<<>>)
      params1 == _add_to_dict(params0, "limit", limit)
      params2 == _add_to_dict(params1, "offset", offset)
      params3 == _add_to_dict(params2, "search", search)
      params4 == _add_to_dict(params3, "order_number", order_number)
      params5 == _add_to_dict(params4, "sort", sort)
      params6 == _add_to_dict(params5, "order", order)
      params7 == _add_to_dict(params6, "expand", expand)
      params8 == PyStr(str(params7))
      path0 == format("/api/v1/accessories", <<>>)
  IN Guarded(<<_precondition_int(limit),
                _precondition_int(offset),
                _precondition_str(search),
                _precondition_str(order_number),
                _precondition_enum(sort, SortColumns),
                _precondition_enum(order, Orders),
                _precondition_bool(expand)>>,
             _get(path0, params8, resp))

get_accessory_by_id(accessory_id, resp) ==
  LET path0 == format("/api/v1/accessories/{}", <<accessory_id>>)
  IN Guarded(<<_precondition_int(accessory_id)>>,
             _get(path0, None, resp))

get_accessory_by_name(name, resp) ==
  Guarded(<<>>,
          ByName(get_accessories(None, None, name, None, None, None, None, resp), name))

create_asset(status_id, model_id, asset_tag, name, resp) ==
  LET payload0 == PyDict(<<[k |-> "status_id", v |-> status_id], [k |-> "model_id", v |-> model_id]>>)
      payload1 == _add_to_dict(payload0, "asset_tag", asset_tag)
      payload2 == _add_to_dict(payload1, "name", name)
      path0 == format("/api/v1/hardware", <<>>)
  IN Guarded(<<_precondition_str(asset_tag),
                _precondition_int(status_id),
                _precondition_int(model_id),
                _precondition_str(name)>>,
             _post(path0, payload2, resp))

delete_asset(asset_id, resp) ==
  LET path0 == format("/api/v1/hardware/{}", <<asset_id>>)
  IN Guarded(<<_precondition_int(asset_id)>>,
             _delete(path0, None, resp))

get_assets(limit, offset, search, order_number, sort, order, model_id, category_id, manufacturer_id, company_id, location_id, status, status_id, resp) ==
  LET path0 == format("/api/v1/hardware", <<>>)
      params0 == PyDict(<<>>)
      params1 == _add_to_dict(params0, "limit", limit)
      params2 == _add_to_dict(params1, "offset", offset)
      params3 == _add_to_dict(params2, "search", search)
      params4 == _add_to_dict(params3, "order_number", order_number)
      params5 == _add_to_dict(params4, "sort", sort)
      params6 == _add_to_dict(params5, "order", order)
      params7 == _add_to_dict(params6, "model_id", model_id)
      params8 == _add_to_dict(params7, "category_id", category_id)
      params9 == _add_to_dict(params8, "manufacturer_id", manufacturer_id)
      params10 == _add_to_dict(params9, "company_id", company_id)
      params11 == _add_to_dict(params10, "location_id", location_id)
      params12 == _add_to_dict(params11, "status", status)
      params13 == _add_to_dict(params12, "status_id", status_id)
  IN Guarded(<<_precondition_int(limit),
                _precondition_int(offset),
                _precondition_str(search),
                _precondition_str(order_number),
                _precondition_int(model_id),
                _precondition_int(category_id),
                _precondition_int(manufacturer_id),
                _precondition_int(company_id),
                _precondition_int(location_id),
                _precondition_str(status),
                _precondition_str(status_id),
                _precondition_enum(sort, SortColumns),
                _precondition_enum(order, Orders)>>,
             _get(path0, params13, resp))

get_asset_by_id(asset_id, resp) ==
  LET path0 == format("/api/v1/hardware/{}", <<asset_id>>)
  IN Guarded(<<_precondition_int(asset_id)>>,
             _get(path0, None, resp))

get_asset_by_name(name, resp) ==
  Guarded(<<>>,
          ByName(get_assets(None, None, name, None, None, None, None, None, None, None, None, None, None, resp), name))

get_asset_by_serial(asset_serial, resp) ==
  LET path0 == format("/api/v1/hardware/byserial/{}", <<asset_serial>>)
  IN Guarded(<<_precondition_str(asset_serial)>>,
             _get(path0, None, resp))

get_asset_by_tag(asset_tag, resp) ==
  LET path0 == format("/api/v1/hardware/bytag/{}", <<asset_tag>>)
  IN Guarded(<<_precondition_str(asset_tag)>>,
             _get(path0, None, resp))

get_assets_by_status_id(status_label_id, resp) ==
  LET path0 == format("/api/v1/statuslabels/{}/assetlist", <<status_label_id>>)
  IN Guarded(<<_precondition_int(status_label_id)>>,
             _get(path0, None, resp))

update_asset(asset_id, asset_tag, notes, status_id, model_id, last_checkout, assigned_to, company_id, serial, order_number, warranty_months, purchase_cost, purchase_date, requestable, archived, rtd_location_id, name, resp) ==
  LET payload0 == PyDict(<<>>)
      payload1 == _add_to_dict(payload0, "asset_tag", asset_tag)
      payload2 == _add_to_dict(payload1, "notes", notes)
      payload3 == _add_to_dict(payload2, "status_id", status_id)
      payload4 == _add_to_dict(payload3, "model_id", model_id)
      payload5 == _add_to_dict(payload4, "last_checkout", last_checkout)
      payload6 == _add_to_dict(payload5, "assigned_to", assigned_to)
      payload7 == _add_to_dict(payload6, "company_id", company_id)
      payload8 == _add_to_dict(payload7, "serial", serial)
      payload9 == _add_to_dict(payload8, "order_number", order_number)
      payload10 == _add_to_dict(payload9, "warranty_months", warranty_months)
      payload11 == _add_to_dict(payload10, "purchase_cost", purchase_cost)
      payload12 == _add_to_dict(payload11, "purchase_date", purchase_date)
      payload13 == _add_to_dict(payload12, "requestable", requestable)
      payload14 == _add_to_dict(payload13, "archived", archived)
      payload15 == _add_to_dict(payload14, "rtd_location_id", rtd_location_id)
      payload16 == _add_to_dict(payload15, "name", name)
      path0 == format("/api/v1/hardware/{}", <<asset_id>>)
  IN Guarded(<<_precondition_int(asset_id),
                _precondition_str(asset_tag),
                _precondition_str(notes),
                _precondition_int(status_id),
                _precondition_int(model_id),
                _precondition_date(last_checkout),
                _precondition_int(assigned_to),
                _precondition_int(company_id),
                _precondition_str(serial),
                _precondition_str(order_number),
                _precondition_int(warranty_months),
                _precondition_float(purchase_cost),
                _precondition_date(purchase_date),
                _precondition_bool(requestable),
                _precondition_bool(archived),
                _precondition_int(rtd_location_id),
                _precondition_str(name)>>,
             _patch(path0, payload16, resp))

create_category(name, category_type, use_default_eula, require_acceptance, checkin_email, resp) ==
  LET payload0 == PyDict(<<[k |-> "name", v |-> name], [k |-> "category_type", v |-> category_type]>>)
      payload1 == _add_to_dict(payload0, "use_default_uela", use_default_eula)
      payload2 == _add_to_dict(payload1, "require_acceptance", require_acceptance)
      payload3 == _add_to_dict(payload2, "checkin_email", checkin_email)
      path0 == format("/api/v1/categories", <<>>)
  IN Guarded(<<_precondition_str(name),
                _precondition_enum(category_type, CategoryTypes),
                _precondition_bool(use_default_eula),
                _precondition_bool(require_acceptance),
                _precondition_bool(checkin_email)>>,
             _post(path0, payload3, resp))

delete_category(category_id, resp) ==
  LET path0 == format("/api/v1/categories/{}", <<category_id>>)
  IN Guarded(<<_precondition_int(category_id)>>,
             _delete(path0, None, resp))

get_categories(limit, offset, search, sort, order, resp) ==
  LET payload0 == PyDict(<<>>)
      payload1 == _add_to_dict(payload0, "limit", limit)
      payload2 == _add_to_dict(payload1, "offset", offset)
      payload3 == _add_to_dict(payload2, "search", search)
      payload4 == _add_to_dict(payload3, "sort", sort)
      payload5 == _add_to_dict(payload4, "order", order)
      path0 == format("/api/v1/categories", <<>>)
  IN Guarded(<<_precondition_int(limit),
                _precondition_int(offset),
                _precondition_str(search),
                _precondition_str(sort),
                _precondition_enum(order, Orders)>>,
             _get(path0, payload5, resp))

get_category_by_id(category_id, resp) ==
  LET path0 == format("/api/v1/categories/{}", <<category_id>>)
  IN Guarded(<<_precondition_int(category_id)>>,
             _get(path0, None, resp))

get_category_by_name(name, resp) ==
  Guarded(<<>>,
          ByName(get_categories(None, None, name, None, None, resp), name))

update_category(category_id, name, category_type, use_default_eula, require_acceptance, checkin_email, resp) ==
  LET payload0 == PyDict(<<[k |-> "name", v |-> name], [k |-> "category_type", v |-> category_type]>>)
      payload1 == _add_to_dict(payload0, "use_default_uela", use_default_eula)
      payload2 == _add_to_dict(payload1, "require_acceptance", require_acceptance)
      payload3 == _add_to_dict(payload2, "checkin_email", checkin_email)
      path0 == format("/api/v1/categories/{}", <<category_id>>)
  IN Guarded(<<_precondition_int(category_id),
                _precondition_str(name),
                _precondition_str(category_type),
                _precondition_bool(use_default_eula),
                _precondition_bool(require_acceptance),
                _precondition_bool(checkin_email)>>,
             _patch(path0, payload3, resp))

create_company(name, resp) ==
  LET payload0 == PyDict(<<[k |-> "name", v |-> name]>>)
      path0 == format("/api/v1/companies", <<>>)
  IN Guarded(<<_precondition_str(name)>>,
             _post(path0, payload0, resp))

delete_company(company_id, resp) ==
  LET path0 == format("/api/v1/companies/{}", <<company_id>>)
  IN Guarded(<<_precondition_int(company_id)>>,
             Discard(_delete(path0, None, resp)))

get_companies(search, resp) ==
  LET payload0 == PyDict(<<>>)
      payload1 == _add_to_dict(payload0, "search", search)
      path0 == format("/api/v1/companies", <<>>)
  IN Guarded(<<_precondition_str(search)>>,
             _get(path0, None, resp))

get_company_by_id(company_id, resp) ==
  LET path0 == format("/api/v1/companies/{}", <<company_id>>)
  IN Guarded(<<_precondition_int(company_id)>>,
             _get(path0, None, resp))

get_company_by_name(name, resp) ==
  Guarded(<<>>,
          ByName(get_companies(name, resp), name))

update_company(company_id, name, resp) ==
  LET payload0 == PyDict(<<[k |-> "name", v |-> name]>>)
      path0 == format("/api/v1/companies/{}", <<company_id>>)
  IN Guarded(<<_precondition_int(company_id),
                _precondition_str(name)>>,
             _patch(path0, payload0, resp))

create_component(name, qty, category_id, resp) ==
  LET payload0 == PyDict(<<[k |-> "name", v |-> name], [k |-> "qty", v |-> qty], [k |-> "category_id", v |-> category_id]>>)
      path0 == format("/api/v1/components", <<>>)
  IN Guarded(<<_precondition_str(name),
                _precondition_int(qty),
                _precondition_int(category_id)>>,
             _post(path0, payload0, resp))

get_components(limit, offset, search, order_number, sort, order, expand, resp) ==
  LET payload0 == PyDict(<<>>)
      payload1 == _add_to_dict(payload0, "limit", limit)
      payload2 == _add_to_dict(payload1, "offset", offset)
      payload3 == _add_to_dict(payload2, "search", search)
      payload4 == _add_to_dict(payload3, "order_number", order_number)
      payload5 == _add_to_dict(payload4, "sort", sort)
      payload6 == _add_to_dict(payload5, "order", order)
      payload7 == _add_to_dict(payload6, "expand", expand)
      path0 == format("/api/v1/components", <<>>)
  IN Guarded(<<_precondition_int(limit),
                _precondition_int(offset),
                _precondition_str(search),
                _precondition_str(order_number),
                _precondition_enum(order, Orders),
                _precondition_enum(sort, SortColumns),
                _precondition_bool(expand)>>,
             _get(path0, payload7, resp))

get_component_by_id(component_id, resp) ==
  LET path0 == format("/api/v1/components/{}", <<component_id>>)
  IN Guarded(<<_precondition_int(component_id)>>,
             _get(path0, None, resp))

get_component_by_name(name, resp) ==
  Guarded(<<>>,
          ByName(get_components(None, None, name, None, None, None, None, resp), name))

create_consumable(name, qty, category_id, resp) ==
  LET payload0 == PyDict(<<[k |-> "name", v |-> name], [k |-> "qty", v |-> qty], [k |-> "category_id", v |-> category_id]>>)
      path0 == format("/api/v1/consumables", <<>>)
  IN Guarded(<<_precondition_str(name),
                _precondition_int(qty),
                _precondition_int(category_id)>>,
             _post(path0, payload0, resp))

get_consumables(limit, offset, search, order_number, sort, order, expand, category_id, company_id, manufacturer_id, resp) ==
  LET payload0 == PyDict(<<>>)
      payload1 == _add_to_dict(payload0, "limit", limit)
      payload2 == _add_to_dict(payload1, "offset", offset)
      payload3 == _add_to_dict(payload2, "search", search)
      payload4 == _add_to_dict(payload3, "order_number", order_number)
      payload5 == _add_to_dict(payload4, "sort", sort)
      payload6 == _add_to_dict(payload5, "order", order)
      payload7 == _add_to_dict(payload6, "expand", expand)
      payload8 == _add_to_dict(payload7, "category_id", category_id)
      payload9 == _add_to_dict(payload8, "company_id", company_id)
      payload10 == _add_to_dict(payload9, "manufacturer_id", manufacturer_id)
      path0 == format("/api/v1/consumables", <<>>)
  IN Guarded(<<_precondition_int(limit),
                _precondition_int(offset),
                _precondition_str(search),
                _precondition_str(order_number),
                _precondition_enum(sort, SortColumns),
                _precondition_enum(order, Orders),
                _precondition_bool(expand),
                _precondition_int(category_id),
                _precondition_int(company_id),
                _precondition_int(manufacturer_id)>>,
             _get(path0, payload10, resp))

get_consumable_by_id(consumable_id, resp) ==
  LET path0 == format("/api/v1/consumables/{}", <<consumable_id>>)
  IN Guarded(<<_precondition_int(consumable_id)>>,
             _get(path0, None, resp))

get_consumable_by_name(name, resp) ==
  Guarded(<<>>,
          ByName(get_consumables(None, None, name, None, None, None, None, None, None, None, resp), name))

create_field(name, element, field_values, fmt, custom_format, help_text, show_in_email, field_encrypted, resp) ==
  LET payload0 == PyDict(<<[k |-> "name", v |-> name], [k |-> "element", v |-> element]>>)
      payload1 == _add_to_dict(payload0, "field_values", field_values)
      payload2 == _add_to_dict(payload1, "format", fmt)
      payload3 == _add_to_dict(payload2, "custom_format", custom_format)
      payload4 == _add_to_dict(payload3, "help_text", help_text)
      payload5 == _add_to_dict(payload4, "show_in_email", show_in_email)
      payload6 == _add_to_dict(payload5, "field_encrypted", field_encrypted)
      path0 == format("/api/v1/fields", <<>>)
  IN Guarded(<<_precondition_str(name),
                _precondition_enum(element, Elements),
                _precondition_list(field_values, "str"),
                _precondition_enum(fmt, Formats),
                _precondition_str(custom_format),
                _precondition_str(help_text),
                _precondition_bool(show_in_email),
                _precondition_bool(field_encrypted)>>,
             _post(path0, payload6, resp))

delete_field(field_id, resp) ==
  LET path0 == format("/api/v1/fields/{}", <<field_id>>)
  IN Guarded(<<_precondition_int(field_id)>>,
             _delete(path0, None, resp))

get_fields(resp) ==
  LET path0 == format("/api/v1/fields", <<>>)
  IN Guarded(<<>>,
             _get(path0, None, resp))

get_field_by_id(field_id, resp) ==
  LET path0 == format("/api/v1/fields/{}", <<field_id>>)
  IN Guarded(<<_precondition_int(field_id)>>,
             _get(path0, None, resp))

get_field_by_name(name, resp) ==
  Guarded(<<>>,
          ByName(get_fields(resp), name))

update_field(field_id, name, element, field_values, fmt, custom_format, help_text, show_in_email, field_encrypted, resp) ==
  LET payload0 == PyDict(<<[k |-> "name", v |-> name], [k |-> "element", v |-> element]>>)
      payload1 == _add_to_dict(payload0, "field_values", field_values)
      payload2 == _add_to_dict(payload1, "format", fmt)
      payload3 == _add_to_dict(payload2, "custom_format", custom_format)
      payload4 == _add_to_dict(payload3, "help_text", help_text)
      payload5 == _add_to_dict(payload4, "show_in_email", show_in_email)
      payload6 == _add_to_dict(payload5, "field_encrypted", field_encrypted)
      path0 == format("/api/v1/fields/{}", <<field_id>>)
  IN Guarded(<<_precondition_int(field_id),
                _precondition_str(name),
                _precondition_enum(element, Elements),
                _precondition_list(field_values, "str"),
                _precondition_enum(fmt, Formats),
                _precondition_str(custom_format),
                _precondition_str(help_text),
                _precondition_bool(show_in_email),
                _precondition_bool(field_encrypted)>>,
             _patch(path0, payload6, resp))

create_fieldset(name, resp) ==
  LET payload0 == PyDict(<<[k |-> "name", v |-> name]>>)
      path0 == format("/api/v1/fieldsets", <<>>)
  IN Guarded(<<_precondition_str(name)>>,
             _post(path0, payload0, resp))

delete_fieldset(fieldset_id, resp) ==
  LET path0 == format("/api/v1/fieldsets/{}", <<fieldset_id>>)
  IN Guarded(<<_precondition_int(fieldset_id)>>,
             _delete(path0, None, resp))

get_fieldsets(resp) ==
  LET path0 == format("/api/v1/fieldsets", <<>>)
  IN Guarded(<<>>,
             _get(path0, None, resp))

get_fieldset_by_id(fieldset_id, resp) ==
  LET path0 == format("/api/v1/fieldsets/{}", <<fieldset_id>>)
  IN Guarded(<<_precondition_int(fieldset_id)>>,
             _get(path0, None, resp))

get_fieldset_by_name(name, resp) ==
  Guarded(<<>>,
          ByName(get_fieldsets(resp), name))

update_fieldset(fieldset_id, name, resp) ==
  LET payload0 == PyDict(<<[k |-> "name", v |-> name]>>)
      path0 == format("/api/v1/fieldsets/{}", <<fieldset_id>>)
  IN Guarded(<<_precondition_int(fieldset_id),
                _precondition_str(name)>>,
             _put(path0, payload0, resp))

create_license(name, seats, category_id, product_key, company_id, expiration_date, license_email, license_name, maintained, manufacturer_id, notes, order_number, purchase_cost, purchase_date, purchase_order, reassignable, serial, supplier_id, termination_date, resp) ==
  LET payload0 == PyDict(<<[k |-> "name", v |-> name], [k |-> "seats", v |-> seats], [k |-> "category_id", v |-> category_id]>>)
      payload1 == _add_to_dict(payload0, "product_key", product_key)
      payload2 == _add_to_dict(payload1, "company_id", company_id)
      payload3 == _add_to_dict(payload2, "expiration_date", expiration_date)
      payload4 == _add_to_dict(payload3, "license_email", license_email)
      payload5 == _add_to_dict(payload4, "license_name", license_name)
      payload6 == _add_to_dict(payload5, "maintained", maintained)
      payload7 == _add_to_dict(payload6, "manufacturer_id", manufacturer_id)
      payload8 == _add_to_dict(payload7, "notes", notes)
      payload9 == _add_to_dict(payload8, "order_number", order_number)
      payload10 == _add_to_dict(payload9, "purchase_cost", purchase_cost)
      payload11 == _add_to_dict(payload10, "purchase_date", purchase_date)
      payload12 == _add_to_dict(payload11, "purchase_order", purchase_order)
      payload13 == _add_to_dict(payload12, "reassignable", reassignable)
      payload14 == _add_to_dict(payload13, "serial", serial)
      payload15 == _add_to_dict(payload14, "supplier_id", supplier_id)
      payload16 == _add_to_dict(payload15, "termination_date", termination_date)
      path0 == format("/api/v1/licenses", <<>>)
  IN Guarded(<<_precondition_str(name),
                _precondition_int(seats),
                _precondition_int(category_id),
                _precondition_str(product_key),
                _precondition_int(company_id),
                _precondition_date(expiration_date),
                _precondition_str(license_email),
                _precondition_str(license_name),
                _precondition_bool(maintained),
                _precondition_int(manufacturer_id),
                _precondition_str(notes),
                _precondition_int(order_number),
                _precondition_float(purchase_cost),
                _precondition_date(purchase_date),
                _precondition_str(purchase_order),
                _precondition_bool(reassignable),
                _precondition_str(serial),
                _precondition_int(supplier_id),
                _precondition_date(termination_date)>>,
             _post(path0, payload16, resp))

delete_license(license_id, resp) ==
  LET path0 == format("/api/v1/licenses/{}", <<license_id>>)
  IN Guarded(<<_precondition_int(license_id)>>,
             _delete(path0, None, resp))

get_licenses(limit, offset, search, order_number, sort, order, expand, resp) ==
  LET params0 == PyDict(<<>>)
      params1 == _add_to_dict(params0, "limit", limit)
      params2 == _add_to_dict(params1, "offset", offset)
      params3 == _add_to_dict(params2, "search", search)
      params4 == _add_to_dict(params3, "order_number", order_number)
      params5 == _add_to_dict(params4, "sort", sort)
      params6 == _add_to_dict(params5, "order", order)
      params7 == _add_to_dict(params6, "expand", expand)
      path0 == format("/api/v1/licenses", <<>>)
  IN Guarded(<<_precondition_int(limit),
                _precondition_int(offset),
                _precondition_str(search),
                _precondition_str(order_number),
                _precondition_enum(sort, SortColumns),
                _precondition_enum(order, Orders),
                _precondition_bool(expand)>>,
             _get(path0, params7, resp))

get_license_by_id(license_id, resp) ==
  LET path0 == format("/api/v1/licenses/{}", <<license_id>>)
  IN Guarded(<<_precondition_int(license_id)>>,
             _get(path0, None, resp))

get_license_by_name(name, resp) ==
  Guarded(<<>>,
          ByName(get_licenses(None, None, name, None, None, None, None, resp), name))

update_license(license_id, name, seats, company_id, expiration_date, license_email, license_name, maintained, manufacturer_id, notes, order_number, purchase_cost, purchase_date, purchase_order, reassignable, serial, supplier_id, termination_date, resp) ==
  LET payload0 == PyDict(<<>>)
      payload1 == _add_to_dict(payload0, "name", name)
      payload2 == _add_to_dict(payload1, "seats", seats)
      payload3 == _add_to_dict(payload2, "company_id", company_id)
      payload4 == _add_to_dict(payload3, "expiration_date", expiration_date)
      payload5 == _add_to_dict(payload4, "license_email", license_email)
      payload6 == _add_to_dict(payload5, "license_name", license_name)
      payload7 == _add_to_dict(payload6, "maintained", maintained)
      payload8 == _add_to_dict(payload7, "manufacturer_id", manufacturer_id)
      payload9 == _add_to_dict(payload8, "notes", notes)
      payload10 == _add_to_dict(payload9, "order_number", order_number)
      payload11 == _add_to_dict(payload10, "purchase_cost", purchase_cost)
      payload12 == _add_to_dict(payload11, "purchase_date", purchase_date)
      payload13 == _add_to_dict(payload12, "purchase_order", purchase_order)
      payload14 == _add_to_dict(payload13, "reassignable", reassignable)
      payload15 == _add_to_dict(payload14, "serial", serial)
      payload16 == _add_to_dict(payload15, "supplier_id", supplier_id)
      payload17 == _add_to_dict(payload16, "termination_date", termination_date)
      path0 == format("/api/v1/licenses/{}", <<license_id>>)
  IN Guarded(<<_precondition_int(license_id),
                _precondition_str(name),
                _precondition_int(seats),
                _precondition_int(company_id),
                _precondition_date(expiration_date),
                _precondition_str(license_email),
                _precondition_str(license_name),
                _precondition_bool(maintained),
                _precondition_int(manufacturer_id),
                _precondition_str(notes),
                _precondition_int(order_number),
                _precondition_float(purchase_cost),
                _precondition_date(purchase_date),
                _precondition_str(purchase_order),
                _precondition_bool(reassignable),
                _precondition_str(serial),
                _precondition_int(supplier_id),
                _precondition_date(termination_date)>>,
             _patch(path0, payload17, resp))

create_location(name, address, address2, city, state, country, zipcode, resp) ==
  LET payload0 == PyDict(<<[k |-> "name", v |-> name]>>)
      payload1 == _add_to_dict(payload0, "address", address)
      payload2 == _add_to_dict(payload1, "address2", address2)
      payload3 == _add_to_dict(payload2, "city", city)
      payload4 == _add_to_dict(payload3, "state", state)
      payload5 == _add_to_dict(payload4, "country", country)
      payload6 == _add_to_dict(payload5, "zip", zipcode)
      path0 == format("/api/v1/locations", <<>>)
  IN Guarded(<<_precondition_str(name),
                _precondition_str(address),
                _precondition_str(address2),
                _precondition_str(city),
                _precondition_str(state),
                _precondition_str(country),
                _precondition_str(zipcode)>>,
             _post(path0, payload6, resp))

delete_location(location_id, resp) ==
  LET path0 == format("/api/v1/locations/{}", <<location_id>>)
  IN Guarded(<<_precondition_int(location_id)>>,
             _delete(path0, None, resp))

get_locations(limit, offset, search, sort, order, resp) ==
  LET payload0 == PyDict(<<>>)
      payload1 == _add_to_dict(payload0, "limit", limit)
      payload2 == _add_to_dict(payload1, "offset", offset)
      payload3 == _add_to_dict(payload2, "search", search)
      payload4 == _add_to_dict(payload3, "sort", sort)
      payload5 == _add_to_dict(payload4, "order", order)
      path0 == format("/api/v1/locations", <<>>)
  IN Guarded(<<_precondition_int(limit),
                _precondition_int(offset),
                _precondition_str(search),
                _precondition_enum(sort, SortColumns),
                _precondition_enum(order, Orders)>>,
             _get(path0, payload5, resp))

get_location_by_id(location_id, resp) ==
  LET path0 == format("/api/v1/locations/{}", <<location_id>>)
  IN Guarded(<<_precondition_int(location_id)>>,
             _get(path0, None, resp))

get_location_by_name(name, resp) ==
  Guarded(<<>>,
          ByName(get_locations(None, None, name, None, None, resp), name))

update_location(location_id, name, address, address2, city, state, country, zipcode, resp) ==
  LET payload0 == PyDict(<<>>)
      payload1 == _add_to_dict(payload0, "name", name)
      payload2 == _add_to_dict(payload1, "address", address)
      payload3 == _add_to_dict(payload2, "address2", address2)
      payload4 == _add_to_dict(payload3, "city", city)
      payload5 == _add_to_dict(payload4, "state", state)
      payload6 == _add_to_dict(payload5, "country", country)
      payload7 == _add_to_dict(payload6, "zip", zipcode)
      path0 == format("/api/v1/locations/{}", <<location_id>>)
  IN Guarded(<<_precondition_int(location_id),
                _precondition_str(name),
                _precondition_str(address),
                _precondition_str(address2),
                _precondition_str(city),
                _precondition_str(state),
                _precondition_str(country),
                _precondition_str(zipcode)>>,
             _patch(path0, payload7, resp))

create_maintenace(name, address, address2, state, country, zipcode, resp) ==
  LET payload0 == PyDict(<<[k |-> "name", v |-> name]>>)
      payload1 == _add_to_dict(payload0, "address", address)
      payload2 == _add_to_dict(payload1, "address2", address2)
      payload3 == _add_to_dict(payload2, "state", state)
      payload4 == _add_to_dict(payload3, "country", country)
      payload5 == _add_to_dict(payload4, "zip", zipcode)
      path0 == format("/api/v1/maintenances", <<>>)
  IN Guarded(<<_precondition_str(name),
                _precondition_str(address),
                _precondition_str(address2),
                _precondition_str(state),
                _precondition_str(country),
                _precondition_str(zipcode)>>,
             _post(path0, payload5, resp))

get_maintenaces(limit, offset, search, sort, order, asset_id, resp) ==
  LET payload0 == PyDict(<<>>)
      payload1 == _add_to_dict(payload0, "limit", limit)
      payload2 == _add_to_dict(payload1, "offset", offset)
      payload3 == _add_to_dict(payload2, "search", search)
      payload4 == _add_to_dict(payload3, "sort", sort)
      payload5 == _add_to_dict(payload4, "order", order)
      payload6 == _add_to_dict(payload5, "asset_id", asset_id)
      path0 == format("/api/v1/maintenances", <<>>)
  IN Guarded(<<_precondition_int(limit),
                _precondition_int(offset),
                _precondition_str(search),
                _precondition_enum(sort, SortColumns),
                _precondition_enum(order, Orders),
                _precondition_int(asset_id)>>,
             _get(path0, payload6, resp))

create_manufacturer(name, resp) ==
  LET payload0 == PyDict(<<[k |-> "name", v |-> name]>>)
      path0 == format("/api/v1/manufacturers", <<>>)
  IN Guarded(<<_precondition_str(name)>>,
             _post(path0, payload0, resp))

delete_manufacturer(manufacturer_id, resp) ==
  LET path0 == format("/api/v1/manufacturers/{}", <<manufacturer_id>>)
  IN Guarded(<<_precondition_int(manufacturer_id)>>,
             _delete(path0, None, resp))

get_manufacturers(search, resp) ==
  LET payload0 == PyDict(<<>>)
      payload1 == _add_to_dict(payload0, "search", search)
      path0 == format("/api/v1/manufacturers", <<>>)
  IN Guarded(<<_precondition_str(search)>>,
             _get(path0, payload1, resp))

get_manufacturer_by_id(manufacturer_id, resp) ==
  LET path0 == format("/api/v1/manufacturers/{}", <<manufacturer_id>>)
  IN Guarded(<<_precondition_int(manufacturer_id)>>,
             _get(path0, None, resp))

get_manufacturer_by_name(name, resp) ==
  Guarded(<<>>,
          ByName(get_manufacturers(name, resp), name))

update_manufacturer(manufacturer_id, name, resp) ==
  LET payload0 == PyDict(<<[k |-> "name", v |-> name]>>)
      path0 == format("/api/v1/manufacturers", <<>>)
  IN Guarded(<<_precondition_int(manufacturer_id),
                _precondition_str(name)>>,
             _patch(path0, payload0, resp))

create_model(name, category_id, manufacturer_id, model_number, eol, fieldset_id, resp) ==
  LET payload0 == PyDict(<<[k |-> "name", v |-> name], [k |-> "category_id", v |-> category_id], [k |-> "manufacturer_id", v |-> manufacturer_id]>>)
      payload1 == _add_to_dict(payload0, "model_number", model_number)
      payload2 == _add_to_dict(payload1, "eol", eol)
      payload3 == _add_to_dict(payload2, "fieldset_id", fieldset_id)
      path0 == format("/api/v1/models", <<>>)
  IN Guarded(<<_precondition_str(name),
                _precondition_str(model_number),
                _precondition_int(category_id),
                _precondition_int(manufacturer_id),
                _precondition_int(eol),
                _precondition_int(fieldset_id)>>,
             _post(path0, payload3, resp))

delete_model(model_id, resp) ==
  LET path0 == format("/api/v1/models/{}", <<model_id>>)
  IN Guarded(<<_precondition_int(model_id)>>,
             _delete(path0, None, resp))

get_models(limit, offset, search, sort, order, resp) ==
  LET payload0 == PyDict(<<>>)
      payload1 == _add_to_dict(payload0, "limit", limit)
      payload2 == _add_to_dict(payload1, "offset", offset)
      payload3 == _add_to_dict(payload2, "search", search)
      payload4 == _add_to_dict(payload3, "sort", sort)
      payload5 == _add_to_dict(payload4, "order", order)
      path0 == format("/api/v1/models", <<>>)
  IN Guarded(<<_precondition_int(limit),
                _precondition_int(offset),
                _precondition_str(search),
                _precondition_enum(sort, SortColumns),
                _precondition_enum(order, Orders)>>,
             _get(path0, payload5, resp))

get_model_by_id(model_id, resp) ==
  LET path0 == format("/api/v1/models/{}", <<model_id>>)
  IN Guarded(<<_precondition_int(model_id)>>,
             _get(path0, None, resp))

get_model_by_name(name, resp) ==
  Guarded(<<>>,
          ByName(get_models(None, None, name, None, None, resp), name))

update_model(model_id, name, category_id, manufacturer_id, model_number, eol, fieldset_id, resp) ==
  LET payload0 == PyDict(<<[k |-> "name", v |-> name], [k |-> "category_id", v |-> category_id], [k |-> "manufacturer_id", v |-> manufacturer_id]>>)
      payload1 == _add_to_dict(payload0, "model_number", model_number)
      payload2 == _add_to_dict(payload1, "eol", eol)
      payload3 == _add_to_dict(payload2, "fieldset_id", fieldset_id)
      path0 == format("/api/v1/models/{}", <<model_id>>)
  IN Guarded(<<_precondition_int(model_id),
                _precondition_str(name),
                _precondition_str(model_number),
                _precondition_int(category_id),
                _precondition_int(manufacturer_id),
                _precondition_int(eol),
                _precondition_int(fieldset_id)>>,
             _patch(path0, payload3, resp))

create_status_label(name, type_name, resp) ==
  LET payload0 == PyDict(<<[k |-> "name", v |-> name]>>)
      payload1 == _add_to_dict(payload0, "type", type_name)
      path0 == format("/api/v1/statuslabels", <<>>)
  IN Guarded(<<_precondition_str(name),
                _precondition_enum(type_name, StatusTypes)>>,
             _post(path0, payload1, resp))

delete_status_label(status_label_id, resp) ==
  LET path0 == format("/api/v1/statuslabels/{}", <<status_label_id>>)
  IN Guarded(<<_precondition_int(status_label_id)>>,
             _delete(path0, None, resp))

get_status_labels(limit, offset, search, sort, order, resp) ==
  LET payload0 == PyDict(<<>>)
      payload1 == _add_to_dict(payload0, "limit", limit)
      payload2 == _add_to_dict(payload1, "offset", offset)
      payload3 == _add_to_dict(payload2, "search", search)
      payload4 == _add_to_dict(payload3, "sort", sort)
      payload5 == _add_to_dict(payload4, "order", order)
      path0 == format("/api/v1/statuslabels", <<>>)
  IN Guarded(<<_precondition_int(limit),
                _precondition_int(offset),
                _precondition_str(search),
                _precondition_enum(sort, SortColumns),
                _precondition_enum(order, Orders)>>,
             _get(path0, payload5, resp))

get_status_label_by_id(status_label_id, resp) ==
  LET path0 == format("/api/v1/statuslabels/{}", <<status_label_id>>)
  IN Guarded(<<_precondition_int(status_label_id)>>,
             _get(path0, None, resp))

update_status_label(status_label_id, name, type_name, resp) ==
  LET deployable_bool0 == PyBool(FALSE)
      pending_bool0 == PyBool(FALSE)
      archived_bool0 == PyBool(FALSE)
      deployable_bool1 == IF PyEq(type_name, PyStr(<<"d", "e", "p", "l", "o", "y", "a", "b", "l", "e">>)) THEN PyBool(TRUE) ELSE deployable_bool0
      pending_bool1 == IF ~PyEq(type_name, PyStr(<<"d", "e", "p", "l", "o", "y", "a", "b", "l", "e">>)) /\ PyEq(type_name, PyStr(<<"p", "e", "n", "d", "i", "n", "g">>)) THEN PyBool(TRUE) ELSE pending_bool0
      archived_bool1 == IF ~PyEq(type_name, PyStr(<<"d", "e", "p", "l", "o", "y", "a", "b", "l", "e">>)) /\ ~PyEq(type_name, PyStr(<<"p", "e", "n", "d", "i", "n", "g">>)) /\ PyEq(type_name, PyStr(<<"a", "r", "c", "h", "i", "v", "e", "d">>)) THEN PyBool(TRUE) ELSE archived_bool0
      payload0 == PyDict(<<[k |-> "name", v |-> name], [k |-> "deployable", v |-> deployable_bool1], [k |-> "pending", v |-> pending_bool1], [k |-> "archived", v |-> archived_bool1]>>)
      path0 == format("/api/v1/statuslabels/{}", <<status_label_id>>)
  IN Guarded(<<_precondition_int(status_label_id),
                _precondition_str(name),
                _precondition_enum(type_name, StatusTypes)>>,
             _post(path0, payload0, resp))

\* Mutant: the password is sent once, without its confirmation.
create_user_once(first_name, username, password, last_name, email, permissions, activated, phone, jobtitle, manager_id, employee_num, notes, company_id, two_factor_enrolled, two_factor_optin, department_id, location_id, resp) ==
  Guarded(<<_precondition_str(first_name), _precondition_str(username), _precondition_str(password)>>,
          _post(format("/api/v1/users", <<>>),
                PyDict(<<[k |-> "first_name", v |-> first_name], [k |-> "username", v |-> username],
                         [k |-> "password", v |-> password]>>),
                resp))

create_user(first_name, username, password, last_name, email, permissions, activated, phone, jobtitle, manager_id, employee_num, notes, company_id, two_factor_enrolled, two_factor_optin, department_id, location_id, resp) ==
  LET payload0 == PyDict(<<[k |-> "first_name", v |-> first_name], [k |-> "username", v |-> username], [k |-> "password", v |-> password], [k |-> "password_confirmation", v |-> password]>>)
      payload1 == _add_to_dict(payload0, "last_name", last_name)
      payload2 == _add_to_dict(payload1, "email", email)
      payload3 == _add_to_dict(payload2, "permissions", permissions)
      payload4 == _add_to_dict(payload3, "activated", activated)
      payload5 == _add_to_dict(payload4, "phone", phone)
      payload6 == _add_to_dict(payload5, "jobtitle", jobtitle)
      payload7 == _add_to_dict(payload6, "manager_id", manager_id)
      payload8 == _add_to_dict(payload7, "employee_num", employee_num)
      payload9 == _add_to_dict(payload8, "notes", notes)
      payload10 == _add_to_dict(payload9, "company_id", company_id)
      payload11 == _add_to_dict(payload10, "two_factor_enrolled", two_factor_enrolled)
      payload12 == _add_to_dict(payload11, "two_factor_optin", two_factor_optin)
      payload13 == _add_to_dict(payload12, "department_id", department_id)
      payload14 == _add_to_dict(payload13, "location_id", location_id)
      path0 == format("/api/v1/users", <<>>)
  IN Guarded(<<_precondition_str(first_name),
                _precondition_str(last_name),
                _precondition_str(username),
                _precondition_str(password),
                _precondition_str(email),
                _precondition_str(permissions),
                _precondition_bool(activated),
                _precondition_str(phone),
                _precondition_str(jobtitle),
                _precondition_int(manager_id),
                _precondition_str(employee_num),
                _precondition_str(notes),
                _precondition_int(company_id),
                _precondition_bool(two_factor_enrolled),
                _precondition_bool(two_factor_optin),
                _precondition_int(department_id),
                _precondition_int(location_id)>>,
             _post(path0, payload14, resp))

delete_user(user_id, resp) ==
  LET path0 == format("/api/v1/users/{}", <<user_id>>)
  IN Guarded(<<_precondition_int(user_id)>>,
             _delete(path0, None, resp))

get_users(search, limit, offset, sort, order, group_id, company_id, department_id, deleted, resp) ==
  LET payload0 == PyDict(<<>>)
      payload1 == _add_to_dict(payload0, "search", search)
      payload2 == _add_to_dict(payload1, "limit", limit)
      payload3 == _add_to_dict(payload2, "offset", offset)
      payload4 == _add_to_dict(payload3, "sort", sort)
      payload5 == _add_to_dict(payload4, "order", order)
      payload6 == _add_to_dict(payload5, "group_id", group_id)
      payload7 == _add_to_dict(payload6, "company_id", company_id)
      payload8 == _add_to_dict(payload7, "department_id", department_id)
      payload9 == _add_to_dict(payload8, "deleted", deleted)
      path0 == format("/api/v1/users", <<>>)
  IN Guarded(<<_precondition_str(search),
                _precondition_int(limit),
                _precondition_int(offset),
                _precondition_enum(sort, SortColumns),
                _precondition_enum(order, Orders),
                _precondition_int(group_id),
                _precondition_int(company_id),
                _precondition_int(department_id),
                _precondition_bool(deleted)>>,
             _get(path0, payload9, resp))

get_user_by_id(user_id, resp) ==
  LET path0 == format("/api/v1/users/{}", <<user_id>>)
  IN Guarded(<<_precondition_int(user_id)>>,
             _get(path0, None, resp))

get_user_by_name(name, resp) ==
  Guarded(<<>>,
          ByName(get_users(name, None, None, None, None, None, None, None, None, resp), name))

get_users_checked_out_assets(user_id, resp) ==
  LET path0 == format("/api/v1/users/{}/assets", <<user_id>>)
  IN Guarded(<<_precondition_int(user_id)>>,
             _get(path0, None, resp))

get_users_checked_out_accessories(user_id, resp) ==
  LET path0 == format("/api/v1/users/{}/accessories", <<user_id>>)
  IN Guarded(<<_precondition_int(user_id)>>,
             _get(path0, None, resp))

\* Mutant: the password is added once, without its confirmation.
update_user_once(user_id, first_name, username, password, last_name, email, permissions, activated, phone, jobtitle, manager_id, employee_num, notes, company_id, two_factor_enrolled, two_factor_optin, department_id, location_id, resp) ==
  Guarded(<<_precondition_int(user_id), _precondition_str(password)>>,
          _patch(format("/api/v1/users/{}", <<user_id>>),
                 _add_to_dict(PyDict(<<>>), "password", password),
                 resp))

update_user(user_id, first_name, username, password, last_name, email, permissions, activated, phone, jobtitle, manager_id, employee_num, notes, company_id, two_factor_enrolled, two_factor_optin, department_id, location_id, resp) ==
  LET payload0 == PyDict(<<>>)
      payload1 == _add_to_dict(payload0, "first_name", first_name)
      payload2 == _add_to_dict(payload1, "username", username)
      payload3 == _add_to_dict(payload2, "password", password)
      payload4 == _add_to_dict(payload3, "password_confirmation", password)
      payload5 == _add_to_dict(payload4, "last_name", last_name)
      payload6 == _add_to_dict(payload5, "email", email)
      payload7 == _add_to_dict(payload6, "permissions", permissions)
      payload8 == _add_to_dict(payload7, "activated", activated)
      payload9 == _add_to_dict(payload8, "phone", phone)
      payload10 == _add_to_dict(payload9, "jobtitle", jobtitle)
      payload11 == _add_to_dict(payload10, "manager_id", manager_id)
      payload12 == _add_to_dict(payload11, "employee_num", employee_num)
      payload13 == _add_to_dict(payload12, "notes", notes)
      payload14 == _add_to_dict(payload13, "company_id", company_id)
      payload15 == _add_to_dict(payload14, "two_factor_enrolled", two_factor_enrolled)
      payload16 == _add_to_dict(payload15, "two_factor_optin", two_factor_optin)
      payload17 == _add_to_dict(payload16, "department_id", department_id)
      payload18 == _add_to_dict(payload17, "location_id", location_id)
      path0 == format("/api/v1/users/{}", <<user_id>>)
  IN Guarded(<<_precondition_int(user_id),
                _precondition_str(first_name),
                _precondition_str(last_name),
                _precondition_str(username),
                _precondition_str(password),
                _precondition_str(email),
                _precondition_str(permissions),
                _precondition_bool(activated),
                _precondition_str(phone),
                _precondition_str(jobtitle),
                _precondition_int(manager_id),
                _precondition_str(employee_num),
                _precondition_str(notes),
                _precondition_int(company_id),
                _precondition_bool(two_factor_enrolled),
                _precondition_bool(two_factor_optin),
                _precondition_int(department_id),
                _precondition_int(location_id)>>,
             _patch(path0, payload18, resp))

create_supplier(name, address, address2, state, city, country, zipcode, contact, phone, fax, email, url, notes, resp) ==
  LET payload0 == PyDict(<<[k |-> "name", v |-> name]>>)
      payload1 == _add_to_dict(payload0, "address", address)
      payload2 == _add_to_dict(payload1, "address2", address2)
      payload3 == _add_to_dict(payload2, "state", state)
      payload4 == _add_to_dict(payload3, "city", city)
      payload5 == _add_to_dict(payload4, "country", country)
      payload6 == _add_to_dict(payload5, "zip", zipcode)
      payload7 == _add_to_dict(payload6, "contact", contact)
      payload8 == _add_to_dict(payload7, "phone", phone)
      payload9 == _add_to_dict(payload8, "fax", fax)
      payload10 == _add_to_dict(payload9, "email", email)
      payload11 == _add_to_dict(payload10, "url", url)
      payload12 == _add_to_dict(payload11, "notes", notes)
      path0 == format("/api/v1/suppliers", <<>>)
  IN Guarded(<<_precondition_str(name),
                _precondition_str(address),
                _precondition_str(address2),
                _precondition_str(state),
                _precondition_str(city),
                _precondition_str(country),
                _precondition_str(zipcode),
                _precondition_str(contact),
                _precondition_str(phone),
                _precondition_str(fax),
                _precondition_str(email),
                _precondition_str(url),
                _precondition_str(notes)>>,
             _post(path0, payload12, resp))

delete_supplier(supplier_id, resp) ==
  LET path0 == format("/api/v1/suppliers/{}", <<supplier_id>>)
  IN Guarded(<<_precondition_int(supplier_id)>>,
             _delete(path0, None, resp))

get_suppliers(resp) ==
  LET path0 == format("/api/v1/suppliers", <<>>)
  IN Guarded(<<>>,
             _get(path0, None, resp))

get_supplier_by_id(supplier_id, resp) ==
  LET path0 == format("/api/v1/suppliers/{}", <<supplier_id>>)
  IN Guarded(<<_precondition_int(supplier_id)>>,
             _get(path0, None, resp))

get_supplier_by_name(name, resp) ==
  Guarded(<<>>,
          ByName(get_suppliers(resp), name))

update_supplier(supplier_id, name, address, address2, state, city, country, zipcode, contact, phone, fax, email, url, notes, resp) ==
  LET payload0 == PyDict(<<>>)
      payload1 == _add_to_dict(payload0, "name", name)
      payload2 == _add_to_dict(payload1, "address", address)
      payload3 == _add_to_dict(payload2, "address2", address2)
      payload4 == _add_to_dict(payload3, "state", state)
      payload5 == _add_to_dict(payload4, "city", city)
      payload6 == _add_to_dict(payload5, "country", country)
      payload7 == _add_to_dict(payload6, "zip", zipcode)
      payload8 == _add_to_dict(payload7, "contact", contact)
      payload9 == _add_to_dict(payload8, "phone", phone)
      payload10 == _add_to_dict(payload9, "fax", fax)
      payload11 == _add_to_dict(payload10, "email", email)
      payload12 == _add_to_dict(payload11, "url", url)
      payload13 == _add_to_dict(payload12, "notes", notes)
      path0 == format("/api/v1/suppliers/{}", <<supplier_id>>)
  IN Guarded(<<_precondition_int(supplier_id),
                _precondition_str(name),
                _precondition_str(address),
                _precondition_str(address2),
                _precondition_str(state),
                _precondition_str(city),
                _precondition_str(country),
                _precondition_str(zipcode),
                _precondition_str(contact),
                _precondition_str(phone),
                _precondition_str(fax),
                _precondition_str(email),
                _precondition_str(url),
                _precondition_str(notes)>>,
             _patch(path0, payload13, resp))

\* The keys a method writes in the dict literal that starts its payload: they
\* hold the arguments as given, without _add_to_dict.
LiteralKeys(method) ==
  CASE method = "create_accessory" -> {"name", "qty", "category_id"}
    [] method = "create_asset" -> {"status_id", "model_id"}
    [] method = "create_category" -> {"name", "category_type"}
    [] method = "update_category" -> {"name", "category_type"}
    [] method = "create_company" -> {"name"}
    [] method = "update_company" -> {"name"}
    [] method = "create_component" -> {"name", "qty", "category_id"}
    [] method = "create_consumable" -> {"name", "qty", "category_id"}
    [] method = "create_field" -> {"name", "element"}
    [] method = "update_field" -> {"name", "element"}
    [] method = "create_fieldset" -> {"name"}
    [] method = "update_fieldset" -> {"name"}
    [] method = "create_license" -> {"name", "seats", "category_id"}
    [] method = "create_location" -> {"name"}
    [] method = "create_maintenace" -> {"name"}
    [] method = "create_manufacturer" -> {"name"}
    [] method = "update_manufacturer" -> {"name"}
    [] method = "create_model" -> {"name", "category_id", "manufacturer_id"}
    [] method = "update_model" -> {"name", "category_id", "manufacturer_id"}
    [] method = "create_status_label" -> {"name"}
    [] method = "update_status_label" -> {"name", "deployable", "pending", "archived"}
    [] method = "create_user" -> {"first_name", "username", "password", "password_confirmation"}
    [] method = "create_supplier" -> {"name"}
    [] OTHER -> {}

\* --------------------------------------------------------------- inputs

\* The values a caller passes for an argument of a public method, None apart:
\* of every type the validators tell apart, true and false in `if v`.
ArgValues ==
  {PyStr(<<>>), PyStr(<<"a", "s", "c">>), PyStr(<<"n", "a", "m", "e">>), PyStr(<<"p", "e", "n", "d", "i", "n", "g">>), PyStr(<<"a", "s", "s", "e", "t">>), PyStr(<<"t", "e", "x", "t">>),
   PyStr(<<"2", "0", "2", "4", "-", "0", "1", "-", "1", "5">>), PyInt(0), PyInt(5), PyBool(TRUE), PyBool(FALSE), PyFloat(15),
   PyList(<<>>), PyList(<<PyStr(<<"a">>)>>)}

\* The arguments of one call: a value for each parameter, at most k of them not None.
RECURSIVE Assignments(_, _)
Assignments(names, k) ==
  IF k = 0 THEN {[p \in names |-> None]}
  ELSE LET fewer == Assignments(names, k - 1)
       IN fewer \cup {[f EXCEPT ![p] = v] : f \in fewer, p \in names, v \in ArgValues}

Args(names) == Assignments(names, MaxNonNull)

\* The arguments of a call that gives every required parameter a value, as the
\* driver does (create_asset(2, 24, name=...)), and one optional parameter or none.
Supplied(required, optional) ==
  {[p \in DOMAIN required \cup optional |->
      IF p \in DOMAIN required THEN required[p] ELSE IF p = q THEN v ELSE None] :
     q \in optional \cup {""}, v \in ArgValues}

\* The server's answers: a page of rows, an error body without rows, a body
\* that is not JSON, and a connection that fails.
RowsBody ==
  LET Row(id, name) == PyDict(<<[k |-> "id", v |-> PyInt(id)], [k |-> "name", v |-> PyStr(name)]>>)
  IN PyDict(<<[k |-> "total", v |-> PyInt(3)],
              [k |-> "rows", v |-> PyList(<<Row(1, <<"n", "a", "m", "e", "d">>), Row(2, <<"n", "a", "m", "e">>), Row(3, <<"n", "a", "m", "e">>)>>)]>>)

ErrorBody ==
  PyDict(<<[k |-> "status", v |-> PyStr(<<"e", "r", "r", "o", "r">>)],
           [k |-> "messages", v |-> PyStr(<<"U", "n", "a", "u", "t", "h", "o", "r", "i", "z", "e", "d">>)]>>)

Responses ==
  {Response(200, RowsBody), Response(401, ErrorBody),
   [raised |-> FALSE, status |-> 500, is_json |-> FALSE, body |-> None],
   [raised |-> TRUE, status |-> 0, is_json |-> FALSE, body |-> None]}

\* The values given to the validators when they are called one by one.
SampleStrs ==
  {<<>>, <<"a">>, <<"a", "s", "c">>, <<"A", "S", "C">>, <<"A", "s", "c">>, <<"d", "e", "s", "c">>, <<"D", "E", "S", "C">>, <<"n", "a", "m", "e">>, <<"N", "a", "m", "e">>, <<"c", "o", "m", "p", "a", "n", "y", "N", "a", "m", "e">>,
   <<"c", "o", "m", "p", "a", "n", "y", "n", "a", "m", "e">>, <<"p", "e", "n", "d", "i", "n", "g">>, <<"P", "e", "n", "d", "i", "n", "g">>, <<"a", "s", "s", "e", "t">>, <<"A", "s", "s", "e", "t">>, <<"t", "e", "x", "t">>, <<"T", "E", "X", "T">>, <<"A", "N", "Y">>, <<"a", "n", "y">>,
   <<"C", "U", "S", "T", "O", "M", " ", "R", "E", "G", "E", "X">>, <<"c", "u", "s", "t", "o", "m", " ", "r", "e", "g", "e", "x">>, <<"5">>, <<"T", "r", "u", "e">>, <<"N", "o", "n", "e">>}

\* Strings given to the date validator: a year, a month and a day in several
\* spellings, joined by "-" or "/", and some strings of other layouts.
DateStrs ==
  LET Years == {<<"2", "0", "2", "4">>, <<"2", "0", "2", "3">>, <<"1", "9", "0", "0">>, <<"0", "0", "0", "0">>, <<"2", "4">>, <<"2", "0", "x", "4">>}
      Months == {<<"0", "1">>, <<"1">>, <<"0", "2">>, <<"2">>, <<"1", "2">>, <<"1", "3">>, <<"0", "0">>, <<"0">>, <<"0", "1", "1">>, <<" ", "1">>}
      Days == {<<"1", "5">>, <<"5">>, <<"0", "5">>, <<" ", "5">>, <<"2", "8">>, <<"2", "9">>, <<"3", "0">>, <<"3", "1">>, <<"3", "2">>, <<"4", "5">>, <<"0", "0">>, <<"0">>,
               <<"5", " ">>, <<"1", "x">>}
  IN {y \o sep \o m \o sep \o dd : y \in Years, sep \in {<<"-">>, <<"/">>}, m \in Months, dd \in Days}
     \cup {<<"0", "1", "/", "1", "5", "/", "2", "0", "2", "4">>, <<"0", "1", "-", "1", "5", "-", "2", "0", "2", "4">>, <<"2", "0", "2", "4", "-", "0", "1">>, <<"2", "0", "2", "4", "-", "0", "1", "-">>, <<"2", "0", "2", "4", "-", "0", "1", "-", "1", "5", "T", "0", "0">>, <<"2", "0", "2", "4", "0", "1", "1", "5">>}

ScalarValues ==
  {None, PyBool(TRUE), PyBool(FALSE), PyInt(-1), PyInt(0), PyInt(1), PyInt(5), PyInt(2024),
   PyFloat(0), PyFloat(10), PyFloat(15)}
  \cup {PyStr(cs) : cs \in SampleStrs}

ElemValues ==
  {None, PyBool(TRUE), PyInt(0), PyInt(5), PyFloat(15), PyStr(<<>>), PyStr(<<"a">>),
   PyStr(<<"2", "0", "2", "4", "-", "0", "1", "-", "1", "5">>), PyStr(<<"2", "0", "2", "4", "-", "1", "3", "-", "4", "5">>)}

RECURSIVE Lists(_)
Lists(len) ==
  IF len = 0 THEN {<<>>}
  ELSE Lists(len - 1) \cup {Append(l, e) : l \in {x \in Lists(len - 1) : Len(x) = len - 1}, e \in ElemValues}

Values == ScalarValues \cup {PyList(l) : l \in Lists(MaxListLen)}

\* The dicts given to _add_to_dict when it is called on its own.
Dicts ==
  {PyDict(<<>>),
   PyDict(<<[k |-> "limit", v |-> PyInt(7)]>>),
   PyDict(<<[k |-> "name", v |-> PyStr(<<"a">>)], [k |-> "expand", v |-> PyStr(<<"t", "r", "u", "e">>)]>>),
   PyDict(<<[k |-> "offset", v |-> PyInt(2)], [k |-> "limit", v |-> PyInt(7)], [k |-> "name", v |-> None]>>)}

\* ---------------------------------------------------------------- state

\* The client after SnipeAPI(server, token), as snipe.py builds it.
Init ==
  /\ server = PyStr(<<"h", "t", "t", "p", "s", ":", "/", "/", "d", "e", "v", "e", "l", "o", "p", ".", "s", "n", "i", "p", "e", "i", "t", "a", "p", "p", ".", "c", "o", "m">>)
  /\ token = PyStr(<<"C", "H", "A", "N", "G", "E", "M", "E">>)
  /\ headers = [Authorization |-> format("Bearer {}", <<token>>),
                Accept |-> "application/json",
                ContentType |-> "application/json"]
  /\ pc = "idle"
  /\ op = ""
  /\ args = <<>>
  /\ dct = PyDict(<<>>)
  /\ handed = <<>>
  /\ sent = <<>>
  /\ result = Returns(None)

\* A call that makes no request.
Direct(outcome) == [handed |-> <<>>, sent |-> <<>>, outcome |-> outcome]

\* One call from beginning to end: what it handed to the wrappers, the
\* requests it made and how it ended.  The session is only read.
Call(name, a, run) ==
  /\ op' = name
  /\ args' = a
  /\ handed' = run.handed
  /\ sent' = run.sent
  /\ result' = run.outcome
  /\ pc' = IF run.outcome.exc = "none" THEN "returned" ELSE "raised"
  /\ UNCHANGED <<server, token, headers, dct>>

\* Mutant: the client keeps the arguments and the request of the call that
\* ended.
Finish_keeps ==
  /\ pc # "idle"
  /\ pc' = "idle"
  /\ UNCHANGED <<server, token, headers, op, args, dct, handed, sent, result>>

\* The caller has the result; the client is ready for its next call.
Finish ==
  /\ pc # "idle"
  /\ pc' = "idle"
  /\ op' = ""
  /\ args' = <<>>
  /\ dct' = PyDict(<<>>)
  /\ handed' = <<>>
  /\ sent' = <<>>
  /\ result' = Returns(None)
  /\ UNCHANGED <<server, token, headers>>

\* The public methods, called with any arguments and answered in any way.
Next ==
  \/ pc = "idle" /\ \E a \in Args({"name", "qty", "category_id", "order_number", "purchase_cost", "purchase_date", "model_number", "company_id", "location_id", "manufacturer_id", "supplier_id"}) \cup Supplied([name |-> PyStr(<<"n", "a", "m", "e">>), qty |-> PyInt(2), category_id |-> PyInt(24)], {"order_number", "purchase_cost", "purchase_date", "model_number", "company_id", "location_id", "manufacturer_id", "supplier_id"}), resp \in Responses :
       Call("create_accessory", a, create_accessory(a.name, a.qty, a.category_id, a.order_number, a.purchase_cost, a.purchase_date, a.model_number, a.company_id, a.location_id, a.manufacturer_id, a.supplier_id, resp))
  \/ pc = "idle" /\ \E a \in Args({"limit", "offset", "search", "order_number", "sort", "order", "expand"}), resp \in Responses :
       Call("get_accessories", a, get_accessories(a.limit, a.offset, a.search, a.order_number, a.sort, a.order, a.expand, resp))
  \/ pc = "idle" /\ \E a \in Args({"accessory_id"}) \cup Supplied([accessory_id |-> PyInt(2)], {}), resp \in Responses :
       Call("get_accessory_by_id", a, get_accessory_by_id(a.accessory_id, resp))
  \/ pc = "idle" /\ \E a \in Args({"name"}) \cup Supplied([name |-> PyStr(<<"n", "a", "m", "e">>)], {}), resp \in Responses :
       Call("get_accessory_by_name", a, get_accessory_by_name(a.name, resp))
  \/ pc = "idle" /\ \E a \in Args({"status_id", "model_id", "asset_tag", "name"}) \cup Supplied([status_id |-> PyInt(2), model_id |-> PyInt(24)], {"asset_tag", "name"}), resp \in Responses :
       Call("create_asset", a, create_asset(a.status_id, a.model_id, a.asset_tag, a.name, resp))
  \/ pc = "idle" /\ \E a \in Args({"asset_id"}) \cup Supplied([asset_id |-> PyInt(2)], {}), resp \in Responses :
       Call("delete_asset", a, delete_asset(a.asset_id, resp))
  \/ pc = "idle" /\ \E a \in Args({"limit", "offset", "search", "order_number", "sort", "order", "model_id", "category_id", "manufacturer_id", "company_id", "location_id", "status", "status_id"}), resp \in Responses :
       Call("get_assets", a, get_assets(a.limit, a.offset, a.search, a.order_number, a.sort, a.order, a.model_id, a.category_id, a.manufacturer_id, a.company_id, a.location_id, a.status, a.status_id, resp))
  \/ pc = "idle" /\ \E a \in Args({"asset_id"}) \cup Supplied([asset_id |-> PyInt(2)], {}), resp \in Responses :
       Call("get_asset_by_id", a, get_asset_by_id(a.asset_id, resp))
  \/ pc = "idle" /\ \E a \in Args({"name"}) \cup Supplied([name |-> PyStr(<<"n", "a", "m", "e">>)], {}), resp \in Responses :
       Call("get_asset_by_name", a, get_asset_by_name(a.name, resp))
  \/ pc = "idle" /\ \E a \in Args({"asset_serial"}) \cup Supplied([asset_serial |-> PyStr(<<"n", "a", "m", "e">>)], {}), resp \in Responses :
       Call("get_asset_by_serial", a, get_asset_by_serial(a.asset_serial, resp))
  \/ pc = "idle" /\ \E a \in Args({"asset_tag"}) \cup Supplied([asset_tag |-> PyStr(<<"n", "a", "m", "e">>)], {}), resp \in Responses :
       Call("get_asset_by_tag", a, get_asset_by_tag(a.asset_tag, resp))
  \/ pc = "idle" /\ \E a \in Args({"status_label_id"}) \cup Supplied([status_label_id |-> PyInt(2)], {}), resp \in Responses :
       Call("get_assets_by_status_id", a, get_assets_by_status_id(a.status_label_id, resp))
  \/ pc = "idle" /\ \E a \in Args({"asset_id", "asset_tag", "notes", "status_id", "model_id", "last_checkout", "assigned_to", "company_id", "serial", "order_number", "warranty_months", "purchase_cost", "purchase_date", "requestable", "archived", "rtd_location_id", "name"}) \cup Supplied([asset_id |-> PyInt(2)], {"asset_tag", "notes", "status_id", "model_id", "last_checkout", "assigned_to", "company_id", "serial", "order_number", "warranty_months", "purchase_cost", "purchase_date", "requestable", "archived", "rtd_location_id", "name"}), resp \in Responses :
       Call("update_asset", a, update_asset(a.asset_id, a.asset_tag, a.notes, a.status_id, a.model_id, a.last_checkout, a.assigned_to, a.company_id, a.serial, a.order_number, a.warranty_months, a.purchase_cost, a.purchase_date, a.requestable, a.archived, a.rtd_location_id, a.name, resp))
  \/ pc = "idle" /\ \E a \in Args({"name", "category_type", "use_default_eula", "require_acceptance", "checkin_email"}) \cup UNION {Supplied([name |-> PyStr(<<"n", "a", "m", "e">>), category_type |-> category_type_], {"use_default_eula", "require_acceptance", "checkin_email"}) : category_type_ \in {CategoryTypes.items[i] : i \in DOMAIN CategoryTypes.items}}, resp \in Responses :
       Call("create_category", a, create_category(a.name, a.category_type, a.use_default_eula, a.require_acceptance, a.checkin_email, resp))
  \/ pc = "idle" /\ \E a \in Args({"category_id"}) \cup Supplied([category_id |-> PyInt(2)], {}), resp \in Responses :
       Call("delete_category", a, delete_category(a.category_id, resp))
  \/ pc = "idle" /\ \E a \in Args({"limit", "offset", "search", "sort", "order"}), resp \in Responses :
       Call("get_categories", a, get_categories(a.limit, a.offset, a.search, a.sort, a.order, resp))
  \/ pc = "idle" /\ \E a \in Args({"category_id"}) \cup Supplied([category_id |-> PyInt(2)], {}), resp \in Responses :
       Call("get_category_by_id", a, get_category_by_id(a.category_id, resp))
  \/ pc = "idle" /\ \E a \in Args({"name"}) \cup Supplied([name |-> PyStr(<<"n", "a", "m", "e">>)], {}), resp \in Responses :
       Call("get_category_by_name", a, get_category_by_name(a.name, resp))
  \/ pc = "idle" /\ \E a \in Args({"category_id", "name", "category_type", "use_default_eula", "require_acceptance", "checkin_email"}) \cup Supplied([category_id |-> PyInt(2), name |-> PyStr(<<"n", "a", "m", "e">>), category_type |-> PyStr(<<"n", "a", "m", "e">>)], {"use_default_eula", "require_acceptance", "checkin_email"}), resp \in Responses :
       Call("update_category", a, update_category(a.category_id, a.name, a.category_type, a.use_default_eula, a.require_acceptance, a.checkin_email, resp))
  \/ pc = "idle" /\ \E a \in Args({"name"}) \cup Supplied([name |-> PyStr(<<"n", "a", "m", "e">>)], {}), resp \in Responses :
       Call("create_company", a, create_company(a.name, resp))
  \/ pc = "idle" /\ \E a \in Args({"company_id"}) \cup Supplied([company_id |-> PyInt(2)], {}), resp \in Responses :
       Call("delete_company", a, delete_company(a.company_id, resp))
  \/ pc = "idle" /\ \E a \in Args({"search"}), resp \in Responses :
       Call("get_companies", a, get_companies(a.search, resp))
  \/ pc = "idle" /\ \E a \in Args({"company_id"}) \cup Supplied([company_id |-> PyInt(2)], {}), resp \in Responses :
       Call("get_company_by_id", a, get_company_by_id(a.company_id, resp))
  \/ pc = "idle" /\ \E a \in Args({"name"}) \cup Supplied([name |-> PyStr(<<"n", "a", "m", "e">>)], {}), resp \in Responses :
       Call("get_company_by_name", a, get_company_by_name(a.name, resp))
  \/ pc = "idle" /\ \E a \in Args({"company_id", "name"}) \cup Supplied([company_id |-> PyInt(2), name |-> PyStr(<<"n", "a", "m", "e">>)], {}), resp \in Responses :
       Call("update_company", a, update_company(a.company_id, a.name, resp))
  \/ pc = "idle" /\ \E a \in Args({"name", "qty", "category_id"}) \cup Supplied([name |-> PyStr(<<"n", "a", "m", "e">>), qty |-> PyInt(2), category_id |-> PyInt(24)], {}), resp \in Responses :
       Call("create_component", a, create_component(a.name, a.qty, a.category_id, resp))
  \/ pc = "idle" /\ \E a \in Args({"limit", "offset", "search", "order_number", "sort", "order", "expand"}), resp \in Responses :
       Call("get_components", a, get_components(a.limit, a.offset, a.search, a.order_number, a.sort, a.order, a.expand, resp))
  \/ pc = "idle" /\ \E a \in Args({"component_id"}) \cup Supplied([component_id |-> PyInt(2)], {}), resp \in Responses :
       Call("get_component_by_id", a, get_component_by_id(a.component_id, resp))
  \/ pc = "idle" /\ \E a \in Args({"name"}) \cup Supplied([name |-> PyStr(<<"n", "a", "m", "e">>)], {}), resp \in Responses :
       Call("get_component_by_name", a, get_component_by_name(a.name, resp))
  \/ pc = "idle" /\ \E a \in Args({"name", "qty", "category_id"}) \cup Supplied([name |-> PyStr(<<"n", "a", "m", "e">>), qty |-> PyInt(2), category_id |-> PyInt(24)], {}), resp \in Responses :
       Call("create_consumable", a, create_consumable(a.name, a.qty, a.category_id, resp))
  \/ pc = "idle" /\ \E a \in Args({"limit", "offset", "search", "order_number", "sort", "order", "expand", "category_id", "company_id", "manufacturer_id"}), resp \in Responses :
       Call("get_consumables", a, get_consumables(a.limit, a.offset, a.search, a.order_number, a.sort, a.order, a.expand, a.category_id, a.company_id, a.manufacturer_id, resp))
  \/ pc = "idle" /\ \E a \in Args({"consumable_id"}) \cup Supplied([consumable_id |-> PyInt(2)], {}), resp \in Responses :
       Call("get_consumable_by_id", a, get_consumable_by_id(a.consumable_id, resp))
  \/ pc = "idle" /\ \E a \in Args({"name"}) \cup Supplied([name |-> PyStr(<<"n", "a", "m", "e">>)], {}), resp \in Responses :
       Call("get_consumable_by_name", a, get_consumable_by_name(a.name, resp))
  \/ pc = "idle" /\ \E a \in Args({"name", "element", "field_values", "fmt", "custom_format", "help_text", "show_in_email", "field_encrypted"}) \cup UNION {Supplied([name |-> PyStr(<<"n", "a", "m", "e">>), element |-> element_], {"field_values", "fmt", "custom_format", "help_text", "show_in_email", "field_encrypted"}) : element_ \in {Elements.items[i] : i \in DOMAIN Elements.items}}, resp \in Responses :
       Call("create_field", a, create_field(a.name, a.element, a.field_values, a.fmt, a.custom_format, a.help_text, a.show_in_email, a.field_encrypted, resp))
  \/ pc = "idle" /\ \E a \in Args({"field_id"}) \cup Supplied([field_id |-> PyInt(2)], {}), resp \in Responses :
       Call("delete_field", a, delete_field(a.field_id, resp))
  \/ pc = "idle" /\ \E a \in Args({}), resp \in Responses :
       Call("get_fields", a, get_fields(resp))
  \/ pc = "idle" /\ \E a \in Args({"field_id"}) \cup Supplied([field_id |-> PyInt(2)], {}), resp \in Responses :
       Call("get_field_by_id", a, get_field_by_id(a.field_id, resp))
  \/ pc = "idle" /\ \E a \in Args({"name"}) \cup Supplied([name |-> PyStr(<<"n", "a", "m", "e">>)], {}), resp \in Responses :
       Call("get_field_by_name", a, get_field_by_name(a.name, resp))
  \/ pc = "idle" /\ \E a \in Args({"field_id", "name", "element", "field_values", "fmt", "custom_format", "help_text", "show_in_email", "field_encrypted"}) \cup UNION {Supplied([field_id |-> PyInt(2), name |-> PyStr(<<"n", "a", "m", "e">>), element |-> element_], {"field_values", "fmt", "custom_format", "help_text", "show_in_email", "field_encrypted"}) : element_ \in {Elements.items[i] : i \in DOMAIN Elements.items}}, resp \in Responses :
       Call("update_field", a, update_field(a.field_id, a.name, a.element, a.field_values, a.fmt, a.custom_format, a.help_text, a.show_in_email, a.field_encrypted, resp))
  \/ pc = "idle" /\ \E a \in Args({"name"}) \cup Supplied([name |-> PyStr(<<"n", "a", "m", "e">>)], {}), resp \in Responses :
       Call("create_fieldset", a, create_fieldset(a.name, resp))
  \/ pc = "idle" /\ \E a \in Args({"fieldset_id"}) \cup Supplied([fieldset_id |-> PyInt(2)], {}), resp \in Responses :
       Call("delete_fieldset", a, delete_fieldset(a.fieldset_id, resp))
  \/ pc = "idle" /\ \E a \in Args({}), resp \in Responses :
       Call("get_fieldsets", a, get_fieldsets(resp))
  \/ pc = "idle" /\ \E a \in Args({"fieldset_id"}) \cup Supplied([fieldset_id |-> PyInt(2)], {}), resp \in Responses :
       Call("get_fieldset_by_id", a, get_fieldset_by_id(a.fieldset_id, resp))
  \/ pc = "idle" /\ \E a \in Args({"name"}) \cup Supplied([name |-> PyStr(<<"n", "a", "m", "e">>)], {}), resp \in Responses :
       Call("get_fieldset_by_name", a, get_fieldset_by_name(a.name, resp))
  \/ pc = "idle" /\ \E a \in Args({"fieldset_id", "name"}) \cup Supplied([fieldset_id |-> PyInt(2), name |-> PyStr(<<"n", "a", "m", "e">>)], {}), resp \in Responses :
       Call("update_fieldset", a, update_fieldset(a.fieldset_id, a.name, resp))
  \/ pc = "idle" /\ \E a \in Args({"name", "seats", "category_id", "product_key", "company_id", "expiration_date", "license_email", "license_name", "maintained", "manufacturer_id", "notes", "order_number", "purchase_cost", "purchase_date", "purchase_order", "reassignable", "serial", "supplier_id", "termination_date"}) \cup Supplied([name |-> PyStr(<<"n", "a", "m", "e">>), seats |-> PyInt(2), category_id |-> PyInt(24)], {"product_key", "company_id", "expiration_date", "license_email", "license_name", "maintained", "manufacturer_id", "notes", "order_number", "purchase_cost", "purchase_date", "purchase_order", "reassignable", "serial", "supplier_id", "termination_date"}), resp \in Responses :
       Call("create_license", a, create_license(a.name, a.seats, a.category_id, a.product_key, a.company_id, a.expiration_date, a.license_email, a.license_name, a.maintained, a.manufacturer_id, a.notes, a.order_number, a.purchase_cost, a.purchase_date, a.purchase_order, a.reassignable, a.serial, a.supplier_id, a.termination_date, resp))
  \/ pc = "idle" /\ \E a \in Args({"license_id"}) \cup Supplied([license_id |-> PyInt(2)], {}), resp \in Responses :
       Call("delete_license", a, delete_license(a.license_id, resp))
  \/ pc = "idle" /\ \E a \in Args({"limit", "offset", "search", "order_number", "sort", "order", "expand"}), resp \in Responses :
       Call("get_licenses", a, get_licenses(a.limit, a.offset, a.search, a.order_number, a.sort, a.order, a.expand, resp))
  \/ pc = "idle" /\ \E a \in Args({"license_id"}) \cup Supplied([license_id |-> PyInt(2)], {}), resp \in Responses :
       Call("get_license_by_id", a, get_license_by_id(a.license_id, resp))
  \/ pc = "idle" /\ \E a \in Args({"name"}) \cup Supplied([name |-> PyStr(<<"n", "a", "m", "e">>)], {}), resp \in Responses :
       Call("get_license_by_name", a, get_license_by_name(a.name, resp))
  \/ pc = "idle" /\ \E a \in Args({"license_id", "name", "seats", "company_id", "expiration_date", "license_email", "license_name", "maintained", "manufacturer_id", "notes", "order_number", "purchase_cost", "purchase_date", "purchase_order", "reassignable", "serial", "supplier_id", "termination_date"}) \cup Supplied([license_id |-> PyInt(2)], {"name", "seats", "company_id", "expiration_date", "license_email", "license_name", "maintained", "manufacturer_id", "notes", "order_number", "purchase_cost", "purchase_date", "purchase_order", "reassignable", "serial", "supplier_id", "termination_date"}), resp \in Responses :
       Call("update_license", a, update_license(a.license_id, a.name, a.seats, a.company_id, a.expiration_date, a.license_email, a.license_name, a.maintained, a.manufacturer_id, a.notes, a.order_number, a.purchase_cost, a.purchase_date, a.purchase_order, a.reassignable, a.serial, a.supplier_id, a.termination_date, resp))
  \/ pc = "idle" /\ \E a \in Args({"name", "address", "address2", "city", "state", "country", "zipcode"}) \cup Supplied([name |-> PyStr(<<"n", "a", "m", "e">>)], {"address", "address2", "city", "state", "country", "zipcode"}), resp \in Responses :
       Call("create_location", a, create_location(a.name, a.address, a.address2, a.city, a.state, a.country, a.zipcode, resp))
  \/ pc = "idle" /\ \E a \in Args({"location_id"}) \cup Supplied([location_id |-> PyInt(2)], {}), resp \in Responses :
       Call("delete_location", a, delete_location(a.location_id, resp))
  \/ pc = "idle" /\ \E a \in Args({"limit", "offset", "search", "sort", "order"}), resp \in Responses :
       Call("get_locations", a, get_locations(a.limit, a.offset, a.search, a.sort, a.order, resp))
  \/ pc = "idle" /\ \E a \in Args({"location_id"}) \cup Supplied([location_id |-> PyInt(2)], {}), resp \in Responses :
       Call("get_location_by_id", a, get_location_by_id(a.location_id, resp))
  \/ pc = "idle" /\ \E a \in Args({"name"}) \cup Supplied([name |-> PyStr(<<"n", "a", "m", "e">>)], {}), resp \in Responses :
       Call("get_location_by_name", a, get_location_by_name(a.name, resp))
  \/ pc = "idle" /\ \E a \in Args({"location_id", "name", "address", "address2", "city", "state", "country", "zipcode"}) \cup Supplied([location_id |-> PyInt(2)], {"name", "address", "address2", "city", "state", "country", "zipcode"}), resp \in Responses :
       Call("update_location", a, update_location(a.location_id, a.name, a.address, a.address2, a.city, a.state, a.country, a.zipcode, resp))
  \/ pc = "idle" /\ \E a \in Args({"name", "address", "address2", "state", "country", "zipcode"}) \cup Supplied([name |-> PyStr(<<"n", "a", "m", "e">>)], {"address", "address2", "state", "country", "zipcode"}), resp \in Responses :
       Call("create_maintenace", a, create_maintenace(a.name, a.address, a.address2, a.state, a.country, a.zipcode, resp))
  \/ pc = "idle" /\ \E a \in Args({"limit", "offset", "search", "sort", "order", "asset_id"}), resp \in Responses :
       Call("get_maintenaces", a, get_maintenaces(a.limit, a.offset, a.search, a.sort, a.order, a.asset_id, resp))
  \/ pc = "idle" /\ \E a \in Args({"name"}) \cup Supplied([name |-> PyStr(<<"n", "a", "m", "e">>)], {}), resp \in Responses :
       Call("create_manufacturer", a, create_manufacturer(a.name, resp))
  \/ pc = "idle" /\ \E a \in Args({"manufacturer_id"}) \cup Supplied([manufacturer_id |-> PyInt(2)], {}), resp \in Responses :
       Call("delete_manufacturer", a, delete_manufacturer(a.manufacturer_id, resp))
  \/ pc = "idle" /\ \E a \in Args({"search"}), resp \in Responses :
       Call("get_manufacturers", a, get_manufacturers(a.search, resp))
  \/ pc = "idle" /\ \E a \in Args({"manufacturer_id"}) \cup Supplied([manufacturer_id |-> PyInt(2)], {}), resp \in Responses :
       Call("get_manufacturer_by_id", a, get_manufacturer_by_id(a.manufacturer_id, resp))
  \/ pc = "idle" /\ \E a \in Args({"name"}) \cup Supplied([name |-> PyStr(<<"n", "a", "m", "e">>)], {}), resp \in Responses :
       Call("get_manufacturer_by_name", a, get_manufacturer_by_name(a.name, resp))
  \/ pc = "idle" /\ \E a \in Args({"manufacturer_id", "name"}) \cup Supplied([manufacturer_id |-> PyInt(2), name |-> PyStr(<<"n", "a", "m", "e">>)], {}), resp \in Responses :
       Call("update_manufacturer", a, update_manufacturer(a.manufacturer_id, a.name, resp))
  \/ pc = "idle" /\ \E a \in Args({"name", "category_id", "manufacturer_id", "model_number", "eol", "fieldset_id"}) \cup Supplied([name |-> PyStr(<<"n", "a", "m", "e">>), category_id |-> PyInt(2), manufacturer_id |-> PyInt(24)], {"model_number", "eol", "fieldset_id"}), resp \in Responses :
       Call("create_model", a, create_model(a.name, a.category_id, a.manufacturer_id, a.model_number, a.eol, a.fieldset_id, resp))
  \/ pc = "idle" /\ \E a \in Args({"model_id"}) \cup Supplied([model_id |-> PyInt(2)], {}), resp \in Responses :
       Call("delete_model", a, delete_model(a.model_id, resp))
  \/ pc = "idle" /\ \E a \in Args({"limit", "offset", "search", "sort", "order"}), resp \in Responses :
       Call("get_models", a, get_models(a.limit, a.offset, a.search, a.sort, a.order, resp))
  \/ pc = "idle" /\ \E a \in Args({"model_id"}) \cup Supplied([model_id |-> PyInt(2)], {}), resp \in Responses :
       Call("get_model_by_id", a, get_model_by_id(a.model_id, resp))
  \/ pc = "idle" /\ \E a \in Args({"name"}) \cup Supplied([name |-> PyStr(<<"n", "a", "m", "e">>)], {}), resp \in Responses :
       Call("get_model_by_name", a, get_model_by_name(a.name, resp))
  \/ pc = "idle" /\ \E a \in Args({"model_id", "name", "category_id", "manufacturer_id", "model_number", "eol", "fieldset_id"}) \cup Supplied([model_id |-> PyInt(2), name |-> PyStr(<<"n", "a", "m", "e">>), category_id |-> PyInt(24), manufacturer_id |-> PyInt(3)], {"model_number", "eol", "fieldset_id"}), resp \in Responses :
       Call("update_model", a, update_model(a.model_id, a.name, a.category_id, a.manufacturer_id, a.model_number, a.eol, a.fieldset_id, resp))
  \/ pc = "idle" /\ \E a \in Args({"name", "type_name"}) \cup UNION {Supplied([name |-> PyStr(<<"n", "a", "m", "e">>), type_name |-> type_name_], {}) : type_name_ \in {StatusTypes.items[i] : i \in DOMAIN StatusTypes.items}}, resp \in Responses :
       Call("create_status_label", a, create_status_label(a.name, a.type_name, resp))
  \/ pc = "idle" /\ \E a \in Args({"status_label_id"}) \cup Supplied([status_label_id |-> PyInt(2)], {}), resp \in Responses :
       Call("delete_status_label", a, delete_status_label(a.status_label_id, resp))
  \/ pc = "idle" /\ \E a \in Args({"limit", "offset", "search", "sort", "order"}), resp \in Responses :
       Call("get_status_labels", a, get_status_labels(a.limit, a.offset, a.search, a.sort, a.order, resp))
  \/ pc = "idle" /\ \E a \in Args({"status_label_id"}) \cup Supplied([status_label_id |-> PyInt(2)], {}), resp \in Responses :
       Call("get_status_label_by_id", a, get_status_label_by_id(a.status_label_id, resp))
  \/ pc = "idle" /\ \E a \in Args({"status_label_id", "name", "type_name"}) \cup UNION {Supplied([status_label_id |-> PyInt(2), name |-> PyStr(<<"n", "a", "m", "e">>), type_name |-> type_name_], {}) : type_name_ \in {StatusTypes.items[i] : i \in DOMAIN StatusTypes.items}}, resp \in Responses :
       Call("update_status_label", a, update_status_label(a.status_label_id, a.name, a.type_name, resp))
  \/ pc = "idle" /\ \E a \in Args({"first_name", "username", "password", "last_name", "email", "permissions", "activated", "phone", "jobtitle", "manager_id", "employee_num", "notes", "company_id", "two_factor_enrolled", "two_factor_optin", "department_id", "location_id"}) \cup Supplied([first_name |-> PyStr(<<"n", "a", "m", "e">>), username |-> PyStr(<<"n", "a", "m", "e">>), password |-> PyStr(<<"n", "a", "m", "e">>)], {"last_name", "email", "permissions", "activated", "phone", "jobtitle", "manager_id", "employee_num", "notes", "company_id", "two_factor_enrolled", "two_factor_optin", "department_id", "location_id"}), resp \in Responses :
       Call("create_user", a, create_user(a.first_name, a.username, a.password, a.last_name, a.email, a.permissions, a.activated, a.phone, a.jobtitle, a.manager_id, a.employee_num, a.notes, a.company_id, a.two_factor_enrolled, a.two_factor_optin, a.department_id, a.location_id, resp))
  \/ pc = "idle" /\ \E a \in Args({"user_id"}) \cup Supplied([user_id |-> PyInt(2)], {}), resp \in Responses :
       Call("delete_user", a, delete_user(a.user_id, resp))
  \/ pc = "idle" /\ \E a \in Args({"search", "limit", "offset", "sort", "order", "group_id", "company_id", "department_id", "deleted"}), resp \in Responses :
       Call("get_users", a, get_users(a.search, a.limit, a.offset, a.sort, a.order, a.group_id, a.company_id, a.department_id, a.deleted, resp))
  \/ pc = "idle" /\ \E a \in Args({"user_id"}) \cup Supplied([user_id |-> PyInt(2)], {}), resp \in Responses :
       Call("get_user_by_id", a, get_user_by_id(a.user_id, resp))
  \/ pc = "idle" /\ \E a \in Args({"name"}) \cup Supplied([name |-> PyStr(<<"n", "a", "m", "e">>)], {}), resp \in Responses :
       Call("get_user_by_name", a, get_user_by_name(a.name, resp))
  \/ pc = "idle" /\ \E a \in Args({"user_id"}) \cup Supplied([user_id |-> PyInt(2)], {}), resp \in Responses :
       Call("get_users_checked_out_assets", a, get_users_checked_out_assets(a.user_id, resp))
  \/ pc = "idle" /\ \E a \in Args({"user_id"}) \cup Supplied([user_id |-> PyInt(2)], {}), resp \in Responses :
       Call("get_users_checked_out_accessories", a, get_users_checked_out_accessories(a.user_id, resp))
  \/ pc = "idle" /\ \E a \in Args({"user_id", "first_name", "username", "password", "last_name", "email", "permissions", "activated", "phone", "jobtitle", "manager_id", "employee_num", "notes", "company_id", "two_factor_enrolled", "two_factor_optin", "department_id", "location_id"}) \cup Supplied([user_id |-> PyInt(2)], {"first_name", "username", "password", "last_name", "email", "permissions", "activated", "phone", "jobtitle", "manager_id", "employee_num", "notes", "company_id", "two_factor_enrolled", "two_factor_optin", "department_id", "location_id"}), resp \in Responses :
       Call("update_user", a, update_user(a.user_id, a.first_name, a.username, a.password, a.last_name, a.email, a.permissions, a.activated, a.phone, a.jobtitle, a.manager_id, a.employee_num, a.notes, a.company_id, a.two_factor_enrolled, a.two_factor_optin, a.department_id, a.location_id, resp))
  \/ pc = "idle" /\ \E a \in Args({"name", "address", "address2", "state", "city", "country", "zipcode", "contact", "phone", "fax", "email", "url", "notes"}) \cup Supplied([name |-> PyStr(<<"n", "a", "m", "e">>)], {"address", "address2", "state", "city", "country", "zipcode", "contact", "phone", "fax", "email", "url", "notes"}), resp \in Responses :
       Call("create_supplier", a, create_supplier(a.name, a.address, a.address2, a.state, a.city, a.country, a.zipcode, a.contact, a.phone, a.fax, a.email, a.url, a.notes, resp))
  \/ pc = "idle" /\ \E a \in Args({"supplier_id"}) \cup Supplied([supplier_id |-> PyInt(2)], {}), resp \in Responses :
       Call("delete_supplier", a, delete_supplier(a.supplier_id, resp))
  \/ pc = "idle" /\ \E a \in Args({}), resp \in Responses :
       Call("get_suppliers", a, get_suppliers(resp))
  \/ pc = "idle" /\ \E a \in Args({"supplier_id"}) \cup Supplied([supplier_id |-> PyInt(2)], {}), resp \in Responses :
       Call("get_supplier_by_id", a, get_supplier_by_id(a.supplier_id, resp))
  \/ pc = "idle" /\ \E a \in Args({"name"}) \cup Supplied([name |-> PyStr(<<"n", "a", "m", "e">>)], {}), resp \in Responses :
       Call("get_supplier_by_name", a, get_supplier_by_name(a.name, resp))
  \/ pc = "idle" /\ \E a \in Args({"supplier_id", "name", "address", "address2", "state", "city", "country", "zipcode", "contact", "phone", "fax", "email", "url", "notes"}) \cup Supplied([supplier_id |-> PyInt(2), name |-> PyStr(<<"n", "a", "m", "e">>)], {"address", "address2", "state", "city", "country", "zipcode", "contact", "phone", "fax", "email", "url", "notes"}), resp \in Responses :
       Call("update_supplier", a, update_supplier(a.supplier_id, a.name, a.address, a.address2, a.state, a.city, a.country, a.zipcode, a.contact, a.phone, a.fax, a.email, a.url, a.notes, resp))
  \/ Finish

Spec == Init /\ [][Next]_vars

\* The validators, called one by one.
CheckStr ==
  pc = "idle" /\ \E s \in Values : Call("_precondition_str", [s |-> s], Direct(_precondition_str(s)))

CheckInt ==
  pc = "idle" /\ \E i \in Values : Call("_precondition_int", [i |-> i], Direct(_precondition_int(i)))

CheckFloat ==
  pc = "idle" /\ \E f \in Values : Call("_precondition_float", [f |-> f], Direct(_precondition_float(f)))

CheckBool ==
  pc = "idle" /\ \E b \in Values : Call("_precondition_bool", [b |-> b], Direct(_precondition_bool(b)))

CheckEnum ==
  pc = "idle" /\ \E s \in Values, enum \in {Orders, StatusTypes, CategoryTypes, Elements, SortColumns, Formats} :
    Call("_precondition_enum", [s |-> s, enum |-> enum], Direct(_precondition_enum(s, enum)))

CheckDate ==
  pc = "idle" /\ \E dt \in Values \cup {PyStr(cs) : cs \in DateStrs} : Call("_precondition_date", [d |-> dt], Direct(_precondition_date(dt)))

CheckList ==
  pc = "idle" /\ \E l \in Values, item_type \in {"None", "str", "int", "bool", "date", "float", "dict"} :
    Call("_precondition_list", [l |-> l, item_type |-> item_type], Direct(_precondition_list(l, item_type)))

NextValid == CheckStr \/ CheckInt \/ CheckFloat \/ CheckBool \/ CheckEnum \/ CheckDate \/ CheckList \/ Finish

SpecValid == Init /\ [][NextValid]_vars

\* _add_to_dict, called on its own: dct is the dict it is given and changes in place.
AddToDict ==
  /\ pc = "idle"
  /\ \E d0 \in Dicts, k \in {"", "expand", "limit", "name"}, v \in Values :
       /\ op' = "_add_to_dict"
       /\ args' = [d |-> d0, k |-> k, v |-> v]
       /\ dct' = _add_to_dict(d0, k, v)
  /\ pc' = "returned"
  /\ result' = Returns(None)
  /\ UNCHANGED <<server, token, headers, handed, sent>>

NextDict == AddToDict \/ Finish

SpecDict == Init /\ [][NextDict]_vars

\* ------------------------------------------------------------ properties

\* The state of the session after construction.
SessionAsConstructed ==
  /\ server = PyStr(<<"h", "t", "t", "p", "s", ":", "/", "/", "d", "e", "v", "e", "l", "o", "p", ".", "s", "n", "i", "p", "e", "i", "t", "a", "p", "p", ".", "c", "o", "m">>)
  /\ token = PyStr(<<"C", "H", "A", "N", "G", "E", "M", "E">>)
  /\ headers.Authorization = format("Bearer {}", <<PyStr(<<"C", "H", "A", "N", "G", "E", "M", "E">>)>>)

\* C1: a call of a public method in which an argument fails its validator
\* raises the validation error (the ValueError of _precondition_error) before
\* any request: it sent no request of any verb and the session (server, token,
\* headers) is as it was constructed. A public method raises before it hands
\* anything to the HTTP layer only when one of its validators stops it.
C1_ValidationErrorBeforeRequest ==
  (pc = "raised" /\ handed = <<>>) =>
    /\ result.exc = "ValueError"
    /\ sent = <<>>
    /\ SessionAsConstructed

\* The part that holds whatever the class of the error: a call that raised
\* before it handed anything to the HTTP layer sent nothing and left the
\* session alone, and a call that ended in a ValueError handed nothing on.
NoRequestWhenValidatorStops ==
  /\ (pc = "raised" /\ handed = <<>>) => sent = <<>> /\ SessionAsConstructed
  /\ (pc = "raised" /\ result.exc = "ValueError") => handed = <<>> /\ sent = <<>>

\* The value a validator was called on.
Checked ==
  CASE op = "_precondition_str" -> args.s
    [] op = "_precondition_int" -> args.i
    [] op = "_precondition_float" -> args.f
    [] op = "_precondition_bool" -> args.b
    [] op = "_precondition_enum" -> args.s
    [] op = "_precondition_date" -> args.d
    [] op = "_precondition_list" -> args.l
    [] OTHER -> None

\* The validation error that names value v.
NamesValue(v) ==
  /\ pc = "raised"
  /\ result.exc = "ValueError"
  /\ result.msg.args[1] = str(v)

\* C2: the str, int, float and bool validators pass a value of exactly the
\* expected type and raise a ValueError naming the value for every other value
\* that is not None; a bool is not an int, an int is neither a float nor a str.
C2_ExactType ==
  LET expected == CASE op = "_precondition_str" -> "str"
                    [] op = "_precondition_int" -> "int"
                    [] op = "_precondition_float" -> "float"
                    [] op = "_precondition_bool" -> "bool"
  IN (op \in {"_precondition_str", "_precondition_int", "_precondition_float", "_precondition_bool"}
        /\ Checked # None) =>
       IF Checked.kind = expected
       THEN pc = "returned" /\ result = Returns(None)
       ELSE NamesValue(Checked)

\* True given to the integer validator is refused.
C2_Witness ==
  /\ op = "_precondition_int" /\ args.i = PyBool(TRUE)
  /\ pc = "raised" /\ result.exc = "ValueError"
  /\ result.msg.args = <<<<"T", "r", "u", "e">>>>

\* C3: every validator returns without raising when the value is None,
\* whatever the list of accepted values or the item type it is given.
C3_NoneAccepted ==
  (op \in {"_precondition_str", "_precondition_int", "_precondition_float", "_precondition_bool",
           "_precondition_enum", "_precondition_date", "_precondition_list"}
     /\ Checked = None) =>
    pc = "returned" /\ result = Returns(None)

\* None given to the date validator.
C3_Witness ==
  op = "_precondition_date" /\ args.d = None /\ pc = "returned"

\* C4: the date validator, given a value that is neither None nor a str,
\* raises the ValueError of _precondition_error naming the value.
C4_NonStringDate ==
  (op = "_precondition_date" /\ args.d # None /\ args.d.kind # "str") => NamesValue(args.d)

\* C5: the enum validator passes a value that is not None if and only if it is
\* one of the accepted values, letter for letter; every other value raises a
\* ValueError.
C5_EnumMembership ==
  (op = "_precondition_enum" /\ args.s # None) =>
    IF \E i \in DOMAIN args.enum.items : args.enum.items[i] = args.s
    THEN pc = "returned" /\ result = Returns(None)
    ELSE NamesValue(args.s)

\* "ASC" is refused where "asc" is accepted.
C5_Witness ==
  /\ op = "_precondition_enum" /\ args.s = PyStr(<<"A", "S", "C">>) /\ args.enum = Orders
  /\ \E i \in DOMAIN Orders.items : Orders.items[i] = PyStr(<<"a", "s", "c">>)
  /\ pc = "raised" /\ result.exc = "ValueError"

\* The number a string of digits writes, -1 for any other string.
Number(cs) ==
  LET Digit(c) == CASE c = "0" -> 0 [] c = "1" -> 1 [] c = "2" -> 2 [] c = "3" -> 3 [] c = "4" -> 4
                    [] c = "5" -> 5 [] c = "6" -> 6 [] c = "7" -> 7 [] c = "8" -> 8 [] c = "9" -> 9
                    [] OTHER -> -1
  IN IF cs = <<>> \/ \E i \in DOMAIN cs : Digit(cs[i]) = -1 THEN -1
     ELSE IF Len(cs) = 1 THEN Digit(cs[1])
     ELSE IF Len(cs) = 2 THEN 10 * Digit(cs[1]) + Digit(cs[2])
     ELSE IF Len(cs) = 4 THEN 1000 * Digit(cs[1]) + 100 * Digit(cs[2]) + 10 * Digit(cs[3]) + Digit(cs[4])
     ELSE -1

\* Day dd of month m of year y is a day of the calendar, y from 1 on.
OnCalendar(y, m, dd) ==
  /\ y >= 1 /\ m \in 1..12 /\ dd >= 1
  /\ dd <= (IF m \in {4, 6, 9, 11} THEN 30
            ELSE IF m # 2 THEN 31
            ELSE IF y % 4 = 0 /\ (y % 100 # 0 \/ y % 400 = 0) THEN 29 ELSE 28)

\* cs is YYYY-MM-DD: four digits, two and two, and names a day of the calendar.
IsoDate(cs) ==
  /\ Len(cs) = 10 /\ cs[5] = "-" /\ cs[8] = "-"
  /\ OnCalendar(Number(SubSeq(cs, 1, 4)), Number(SubSeq(cs, 6, 7)), Number(SubSeq(cs, 9, 10)))

\* cs is a year of four digits, a month and a day of one or two digits each,
\* with "-" between them, and names a day of the calendar; a day of one digit
\* may have a blank before it.
LooseDate(cs) ==
  \E ml \in 1..2, dl \in 1..2 :
    LET m == SubSeq(cs, 6, 5 + ml)
        dd == SubSeq(cs, 7 + ml, 6 + ml + dl)
    IN /\ Len(cs) = 6 + ml + dl /\ cs[5] = "-" /\ cs[6 + ml] = "-"
       /\ OnCalendar(Number(SubSeq(cs, 1, 4)), Number(m),
                     IF dl = 2 /\ dd[1] = " " THEN Number(<<dd[2]>>) ELSE Number(dd))

\* C6 as the specification states it: the date validator passes a string if
\* and only if it is a calendar date written YYYY-MM-DD.
C6_IsoOnly ==
  (op = "_precondition_date" /\ args.d # None /\ args.d.kind = "str") =>
    (pc = "returned" <=> IsoDate(args.d.s))

\* C6: the date validator passes a string if and only if it is a year of four
\* digits, a month and a day, each of one or two digits (the day also a blank
\* and a digit), joined by "-", that name a day of the calendar; every other
\* string raises a ValueError naming it. "2024-01-15" passes; "2024-13-45",
\* "01/15/2024" and "" raise.
C6_DateStrings ==
  (op = "_precondition_date" /\ args.d # None /\ args.d.kind = "str") =>
    /\ IF LooseDate(args.d.s) THEN pc = "returned" /\ result = Returns(None) ELSE NamesValue(args.d)
    /\ args.d.s = <<"2", "0", "2", "4", "-", "0", "1", "-", "1", "5">> => pc = "returned"
    /\ args.d.s \in {<<"2", "0", "2", "4", "-", "1", "3", "-", "4", "5">>, <<"0", "1", "/", "1", "5", "/", "2", "0", "2", "4">>, <<>>} => pc = "raised" /\ result.exc = "ValueError"

\* A month without its leading zero passes.
C6_Witness ==
  /\ op = "_precondition_date" /\ args.d = PyStr(<<"2", "0", "2", "4", "-", "1", "-", "1", "5">>)
  /\ ~IsoDate(args.d.s) /\ LooseDate(args.d.s)
  /\ pc = "returned"

\* C7: the list validator raises a ValueError for every value that is neither
\* None nor a list; given an item type of str, int, bool, date or float it
\* raises a ValueError when an item of the list fails the validator of that
\* type; given no item type it passes every list.
C7_ListItems ==
  LET item(e) == CASE args.item_type = "str" -> _precondition_str(e)
                   [] args.item_type = "int" -> _precondition_int(e)
                   [] args.item_type = "bool" -> _precondition_bool(e)
                   [] args.item_type = "date" -> _precondition_date(e)
                   [] args.item_type = "float" -> _precondition_float(e)
  IN (op = "_precondition_list" /\ args.l # None) =>
       /\ args.l.kind # "list" => pc = "raised" /\ result.exc = "ValueError"
       /\ (/\ args.l.kind = "list"
           /\ args.item_type \in {"str", "int", "bool", "date", "float"}
           /\ \E i \in DOMAIN args.l.items : item(args.l.items[i]).exc # "none")
            => pc = "raised" /\ result.exc = "ValueError"
       /\ (args.l.kind = "list" /\ args.item_type = "None") => pc = "returned"

\* The keys of a dict.
KeysOf(dict) == {dict.items[i].k : i \in DOMAIN dict.items}

\* dct is the dict the call was given with v under key k: every other key has
\* the value it had, and no further key is there.
StoredUnder(k, v) ==
  /\ KeysOf(dct) = KeysOf(args.d) \cup {k}
  /\ GetItem(dct, k) = v
  /\ \A k2 \in KeysOf(args.d) \ {k} : GetItem(dct, k2) = GetItem(args.d, k2)
  /\ Len(dct.items) = Cardinality(KeysOf(dct))

HandedDicts == {handed[i].payload : i \in {j \in DOMAIN handed : handed[j].payload.kind = "dict"}}

Creates ==
  {"create_accessory", "create_asset", "create_category", "create_company", "create_component",
   "create_consumable", "create_field", "create_fieldset", "create_license", "create_location",
   "create_maintenace", "create_manufacturer", "create_model", "create_status_label", "create_user",
   "create_supplier"}

\* The values that are false in `if v`.
Falsy == {None, PyStr(<<>>), PyInt(0), PyFloat(0), PyBool(FALSE), PyList(<<>>)}

\* The call made one request, with the given verb, of what it handed to the
\* wrapper of that verb.
OneRequest(verb) ==
  /\ Len(handed) = 1 /\ Len(sent) = 1
  /\ handed[1].verb = verb /\ sent[1].verb = verb
  /\ sent[1].url = <<server, handed[1].path>>

\* The payload of a create_* call is the required fields as they were given
\* and, of the optional arguments, those not in `dropped`, and it is the body
\* of the one POST the call makes to a path without id; what the call returns
\* is the parsed body of the response.
CreateShape(dropped) ==
  LET p == handed[1].payload
      optional == DOMAIN args \ LiteralKeys(op)
      kept == {q \in optional : args[q] \notin dropped}
      added == {i \in DOMAIN p.items : p.items[i].k \notin LiteralKeys(op)}
  IN /\ OneRequest("POST")
     /\ handed[1].path.args = <<>>
     /\ op = "create_asset" => handed[1].path.fmt = "/api/v1/hardware"
     /\ p.kind = "dict"
     /\ sent[1].data = json_dumps(p) /\ sent[1].params = Absent
     /\ LiteralKeys(op) \subseteq KeysOf(p)
     /\ \A k \in LiteralKeys(op) \cap DOMAIN args : GetItem(p, k) = args[k]
     /\ Cardinality(added) = Cardinality(kept)
     /\ \A i \in added : \E q \in kept : p.items[i].v = args[q]
     /\ op = "create_asset" => KeysOf(p) = {"status_id", "model_id"} \cup (kept \cap {"asset_tag", "name"})
     /\ pc = "returned" => result = Returns(sent[1].resp.body)

GetsById ==
  {"get_accessory_by_id", "get_asset_by_id", "get_category_by_id", "get_company_by_id",
   "get_component_by_id", "get_consumable_by_id", "get_field_by_id", "get_fieldset_by_id",
   "get_license_by_id", "get_location_by_id", "get_manufacturer_by_id", "get_model_by_id",
   "get_status_label_by_id", "get_user_by_id", "get_supplier_by_id"}

Updates ==
  {"update_asset", "update_category", "update_company", "update_field", "update_fieldset",
   "update_license", "update_location", "update_manufacturer", "update_model",
   "update_status_label", "update_user", "update_supplier"}

Deletes ==
  {"delete_asset", "delete_category", "delete_company", "delete_field", "delete_fieldset",
   "delete_license", "delete_location", "delete_manufacturer", "delete_model",
   "delete_status_label", "delete_user", "delete_supplier"}

\* The resource a method works on: the name of its id parameter and the path
\* of one object of the resource, /api/v1/<resource-path>/<id>.
Resource ==
  LET of(id, path) == [id |-> id, path |-> path]
  IN CASE op \in {"get_accessory_by_id"} -> of("accessory_id", "/api/v1/accessories/{}")
       [] op \in {"get_asset_by_id", "update_asset", "delete_asset"} -> of("asset_id", "/api/v1/hardware/{}")
       [] op \in {"get_category_by_id", "update_category", "delete_category"} -> of("category_id", "/api/v1/categories/{}")
       [] op \in {"get_company_by_id", "update_company", "delete_company"} -> of("company_id", "/api/v1/companies/{}")
       [] op \in {"get_component_by_id"} -> of("component_id", "/api/v1/components/{}")
       [] op \in {"get_consumable_by_id"} -> of("consumable_id", "/api/v1/consumables/{}")
       [] op \in {"get_field_by_id", "update_field", "delete_field"} -> of("field_id", "/api/v1/fields/{}")
       [] op \in {"get_fieldset_by_id", "update_fieldset", "delete_fieldset"} -> of("fieldset_id", "/api/v1/fieldsets/{}")
       [] op \in {"get_license_by_id", "update_license", "delete_license"} -> of("license_id", "/api/v1/licenses/{}")
       [] op \in {"get_location_by_id", "update_location", "delete_location"} -> of("location_id", "/api/v1/locations/{}")
       [] op \in {"get_manufacturer_by_id", "update_manufacturer", "delete_manufacturer"} -> of("manufacturer_id", "/api/v1/manufacturers/{}")
       [] op \in {"get_model_by_id", "update_model", "delete_model"} -> of("model_id", "/api/v1/models/{}")
       [] op \in {"get_status_label_by_id", "update_status_label", "delete_status_label"} -> of("status_label_id", "/api/v1/statuslabels/{}")
       [] op \in {"get_user_by_id", "update_user", "delete_user"} -> of("user_id", "/api/v1/users/{}")
       [] op \in {"get_supplier_by_id", "update_supplier", "delete_supplier"} -> of("supplier_id", "/api/v1/suppliers/{}")

\* The call handed its wrapper the path of the object whose id it was given.
PathOfId == handed[1].path = [fmt |-> Resource.path, args |-> <<str(args[Resource.id])>>]

\* The id the call was given is an int.
IntId == args[Resource.id].kind = "int"

\* C12: an update_* method other than update_status_label, called with an int
\* id and fields that pass validation, makes one request to
\* /api/v1/<resource-path>/<id> with the id it was given, by PUT for fieldsets
\* and by PATCH for every other resource, update_manufacturer included.
C12_UpdatePath ==
  (op \in Updates \ {"update_status_label"} /\ IntId /\ handed # <<>>) =>
    /\ OneRequest(IF op = "update_fieldset" THEN "PUT" ELSE "PATCH")
    /\ PathOfId

\* The get_<resource>_by_name methods.
ByNames ==
  {"get_accessory_by_name", "get_asset_by_name", "get_category_by_name", "get_company_by_name",
   "get_component_by_name", "get_consumable_by_name", "get_field_by_name", "get_fieldset_by_name",
   "get_license_by_name", "get_location_by_name", "get_manufacturer_by_name", "get_model_by_name",
   "get_user_by_name", "get_supplier_by_name"}

\* The request of the call was answered with a body that is JSON.
Answered == Len(sent) = 1 /\ ~sent[1].resp.raised /\ sent[1].resp.is_json

\* C13: every create_*, get_* (by name apart), update_* and delete_* method
\* whose request is answered with a JSON body returns that body, parsed and
\* unchanged, and never None or another value; delete_company too.
C13_ReturnsBody ==
  (pc # "idle" /\ op \notin ByNames /\ Answered) => pc = "returned" /\ result = Returns(sent[1].resp.body)

\* The rows of the body that answered the call.
RowsAnswered == GetItem(sent[1].resp.body, "rows").items

\* C14: get_<resource>_by_name(name), answered with a body that has rows,
\* returns the first row, in the order of the rows, whose name equals name,
\* and None when no row has that name; a row whose name only starts with
\* name is passed over.
C14_FirstExactName ==
  (op \in ByNames /\ Answered /\ HasKey(sent[1].resp.body, "rows")) =>
    LET named == {i \in DOMAIN RowsAnswered : GetItem(RowsAnswered[i], "name") = args.name}
    IN /\ pc = "returned"
       /\ named = {} => result = Returns(None)
       /\ named # {} => \E i \in named : /\ \A j \in named : i <= j
                                         /\ result = Returns(RowsAnswered[i])

\* Of the rows named "named", "name" and "name", get_asset_by_name("name")
\* returns the second, the first whose name is "name".
C14_Witness ==
  /\ op = "get_asset_by_name" /\ args.name = PyStr(<<"n", "a", "m", "e">>) /\ pc = "returned"
  /\ Len(sent) = 1 /\ sent[1].resp.body = RowsBody
  /\ GetItem(RowsAnswered[1], "name") = PyStr(<<"n", "a", "m", "e", "d">>)
  /\ GetItem(RowsAnswered[3], "name") = PyStr(<<"n", "a", "m", "e">>)
  /\ result = Returns(RowsAnswered[2])
  /\ GetItem(result.value, "id") = PyInt(2)

\* The params that carry name as the search filter.
SearchFor(name) == PyDict(<<[k |-> "search", v |-> name]>>)

\* C15: get_<resource>_by_name(name), for every resource that has it, makes
\* one GET to the list endpoint of the resource, with search = name in the
\* params it hands to _get (get_accessories hands them on as their str()).
C15_SearchByName ==
  (op \in ByNames /\ sent # <<>> /\ args.name.kind = "str" /\ args.name.s # <<>>) =>
    /\ OneRequest("GET")
    /\ handed[1].path.args = <<>>
    /\ handed[1].payload \in {SearchFor(args.name), PyStr(str(SearchFor(args.name)))}
    /\ sent[1].params = json_dumps(handed[1].payload)

\* The one GET of the call went out without params.
NoParams == OneRequest("GET") /\ handed[1].payload = None /\ sent[1].params = Absent

\* C16 as the specification states it: get_companies, get_manufacturers and
\* get_suppliers each take a search argument and make their GET with no
\* params, whatever the value of search.
C16_SearchNeverSent ==
  (op \in {"get_companies", "get_manufacturers", "get_suppliers"} /\ sent # <<>>) =>
    "search" \in DOMAIN args /\ NoParams

\* C16: get_companies takes a search argument and makes its GET with no
\* params, whatever the value of search; get_manufacturers takes a search
\* argument and hands it to _get, so a search that is true in `if v` goes out
\* as {search: ...}; get_suppliers takes no argument and makes its GET with no
\* params.
C16_SearchPerMethod ==
  /\ (op = "get_companies" /\ sent # <<>>) => "search" \in DOMAIN args /\ NoParams
  /\ (op = "get_manufacturers" /\ sent # <<>>) =>
       /\ "search" \in DOMAIN args /\ OneRequest("GET")
       /\ IF args.search \in Falsy
          THEN handed[1].payload = PyDict(<<>>) /\ sent[1].params = Absent
          ELSE handed[1].payload = SearchFor(args.search) /\ sent[1].params = json_dumps(SearchFor(args.search))
  /\ op = "get_suppliers" => DOMAIN args = {} /\ NoParams

\* get_companies("name") makes its GET without params.
C16_Witness ==
  /\ op = "get_companies" /\ args.search = PyStr(<<"n", "a", "m", "e">>) /\ pc = "returned"
  /\ Len(sent) = 1 /\ sent[1].verb = "GET" /\ sent[1].params = Absent
  /\ handed[1].path.fmt = "/api/v1/companies"

\* The payload of update_status_label and where it goes: by POST to
\* /api/v1/statuslabels/<id>, the fields name, deployable, pending and
\* archived, a flag being True when type_name names it and False otherwise.
StatusLabelShape ==
  LET p == handed[1].payload
      flag(chars) == PyBool(args.type_name = PyStr(chars))
  IN /\ OneRequest("POST")
     /\ handed[1].path = [fmt |-> "/api/v1/statuslabels/{}", args |-> <<str(args.status_label_id)>>]
     /\ sent[1].data = json_dumps(p)
     /\ [i \in DOMAIN p.items |-> p.items[i].k] = <<"name", "deployable", "pending", "archived">>
     /\ GetItem(p, "name") = args.name
     /\ GetItem(p, "deployable") = flag(<<"d", "e", "p", "l", "o", "y", "a", "b", "l", "e">>)
     /\ GetItem(p, "pending") = flag(<<"p", "e", "n", "d", "i", "n", "g">>)
     /\ GetItem(p, "archived") = flag(<<"a", "r", "c", "h", "i", "v", "e", "d">>)

\* The flags of the payload that are True.
FlagsSet == {f \in {"deployable", "pending", "archived"} : GetItem(handed[1].payload, f) = PyBool(TRUE)}

\* C17 as the specification states it: for every type_name that passes
\* validation, update_status_label posts {name, deployable, pending,
\* archived} to /api/v1/statuslabels/<id> with exactly one flag True, the one
\* type_name names.
C17_OneFlagAlways ==
  (op = "update_status_label" /\ handed # <<>>) => StatusLabelShape /\ Cardinality(FlagsSet) = 1

\* C17: update_status_label posts {name, deployable, pending, archived} to
\* /api/v1/statuslabels/<id>; for every type_name other than None that passes
\* validation exactly one flag is True, the one type_name names, and the other
\* two are False; with type_name None, which passes validation too, the three
\* flags are False.
C17_OneFlagUnlessNone ==
  (op = "update_status_label" /\ handed # <<>>) =>
    /\ StatusLabelShape
    /\ args.type_name # None => Cardinality(FlagsSet) = 1
    /\ args.type_name = None => FlagsSet = {}

\* update_status_label(2, "name", "pending") posts pending True and the
\* other two flags False to /api/v1/statuslabels/2.
C17_Witness ==
  /\ op = "update_status_label" /\ pc = "returned"
  /\ args = [status_label_id |-> PyInt(2), name |-> PyStr(<<"n", "a", "m", "e">>), type_name |-> PyStr(<<"p", "e", "n", "d", "i", "n", "g">>)]
  /\ sent[1].verb = "POST" /\ handed[1].path.args = <<<<"2">>>>
  /\ handed[1].payload = PyDict(<<[k |-> "name", v |-> PyStr(<<"n", "a", "m", "e">>)], [k |-> "deployable", v |-> PyBool(FALSE)],
                                  [k |-> "pending", v |-> PyBool(TRUE)], [k |-> "archived", v |-> PyBool(FALSE)]>>)

\* C18: a list method that takes sort and order raises a ValueError, and makes
\* no request, when sort is neither None nor one of the accepted columns and
\* when order is neither None nor "asc" nor "desc"; get_categories as the
\* others.
C18_SortAndOrder ==
  (pc # "idle" /\ {"sort", "order"} \subseteq DOMAIN args) =>
    /\ (args.sort # None /\ \A i \in DOMAIN SortColumns.items : SortColumns.items[i] # args.sort) =>
         pc = "raised" /\ result.exc = "ValueError" /\ sent = <<>>
    /\ (args.order \notin {None, PyStr(<<"a", "s", "c">>), PyStr(<<"d", "e", "s", "c">>)}) =>
         pc = "raised" /\ result.exc = "ValueError" /\ sent = <<>>

\* The one request of the call: the given verb, to the path of the object
\* whose id the call was given, with neither params nor body.
BareRequest(verb) ==
  /\ OneRequest(verb) /\ PathOfId
  /\ handed[1].payload = None /\ sent[1].params = Absent /\ sent[1].data = Absent

\* The call was stopped by the ValueError of a validator and made no request.
Refused == pc = "raised" /\ result.exc = "ValueError" /\ handed = <<>> /\ sent = <<>>

\* C19 as the specification states it: get_<resource>_by_id(id) makes a
\* request only when id is an int, one GET to /api/v1/<resource-path>/<id>
\* without params; for every other id it makes none.
C19_OnlyIntId ==
  op \in GetsById => IF IntId THEN BareRequest("GET") ELSE sent = <<>>

\* C19: get_<resource>_by_id(id) makes a request only when id is an int or
\* None, one GET to /api/v1/<resource-path>/<id> without params (the path
\* ends in "None" when id is None); for every other id it raises a ValueError
\* and makes no request.
C19_IntOrNoneId ==
  op \in GetsById => IF IntId \/ args[Resource.id] = None THEN BareRequest("GET") ELSE Refused

\* get_asset_by_id(5) makes one GET to /api/v1/hardware/5.
C19_Witness ==
  /\ op = "get_asset_by_id" /\ args.asset_id = PyInt(5) /\ pc = "returned"
  /\ Len(sent) = 1 /\ sent[1].verb = "GET" /\ sent[1].params = Absent
  /\ handed[1].path = [fmt |-> "/api/v1/hardware/{}", args |-> <<<<"5">>>>]

\* C20: delete_<resource>(id) with an int id makes one DELETE to
\* /api/v1/<resource-path>/<id> without a body, and makes no request when id
\* is neither None nor an int.
C20_DeleteById ==
  op \in Deletes =>
    /\ IntId => BareRequest("DELETE")
    /\ (~IntId /\ args[Resource.id] # None) => Refused

\* delete_asset(5) makes one DELETE to /api/v1/hardware/5 without a body.
C20_Witness ==
  /\ op = "delete_asset" /\ args.asset_id = PyInt(5) /\ pc = "returned"
  /\ Len(sent) = 1 /\ sent[1].verb = "DELETE" /\ sent[1].data = Absent
  /\ handed[1].path = [fmt |-> "/api/v1/hardware/{}", args |-> <<<<"5">>>>]

\* The call ended in the exception of a validator, before any request.
StoppedByValidator ==
  pc = "raised" /\ result.exc \in {"ValueError", "TypeError"} /\ handed = <<>> /\ sent = <<>>

\* C21: a call of a public method that is not stopped by a validator makes
\* exactly one HTTP request, never none and never two, and returns only when
\* the answer to that request has been parsed as JSON; a call with every
\* argument None, which every validator accepts, is such a call, and so is a
\* get_<resource>_by_name call, whose one request is the GET of the list.
C21_OneRoundTrip ==
  pc # "idle" =>
    /\ StoppedByValidator \/ (Len(handed) = 1 /\ Len(sent) = 1)
    /\ (\A p \in DOMAIN args : args[p] = None) => Len(sent) = 1
    /\ pc = "returned" => Answered
    /\ (op \in ByNames /\ sent # <<>>) => OneRequest("GET") /\ handed[1].path.args = <<>>

\* get_model_by_name("name") makes the one GET of /api/v1/models and returns
\* the row named "name" out of its answer.
C21_Witness ==
  /\ op = "get_model_by_name" /\ args.name = PyStr(<<"n", "a", "m", "e">>) /\ pc = "returned"
  /\ Len(sent) = 1 /\ sent[1].verb = "GET" /\ handed[1].path.fmt = "/api/v1/models"
  /\ sent[1].resp.body = RowsBody /\ result = Returns(RowsAnswered[2])

\* C22: in every state that a sequence of calls of public methods reaches,
\* whether the calls returned, were stopped by a validator or failed in the
\* transport, server and token are the values given at construction, the
\* headers are Authorization: Bearer <token>, Accept: application/json and
\* Content-Type: application/json, and every request of the call at hand went
\* to the server URL followed by the path the method handed to its wrapper.
C22_SessionFixed ==
  /\ SessionAsConstructed
  /\ headers = [Authorization |-> format("Bearer {}", <<token>>),
                Accept |-> "application/json",
                ContentType |-> "application/json"]
  /\ Len(sent) = Len(handed)
  /\ \A i \in DOMAIN sent : sent[i].url = <<server, handed[i].path>>

\* update_user(2), whose transport failed: the session is as constructed and
\* the request went to <server>/api/v1/users/2.
C22_Witness ==
  /\ op = "update_user" /\ pc = "raised" /\ result.exc = "ConnectionError"
  /\ Len(sent) = 1
  /\ sent[1].url = <<PyStr(<<"h", "t", "t", "p", "s", ":", "/", "/", "d", "e", "v", "e", "l", "o", "p", ".", "s", "n", "i", "p", "e", "i", "t", "a", "p", "p", ".", "c", "o", "m">>),
                     [fmt |-> "/api/v1/users/{}", args |-> <<<<"2">>>>]>>
  /\ headers.Authorization = [fmt |-> "Bearer {}", args |-> <<<<"C", "H", "A", "N", "G", "E", "M", "E">>>>]

\* The value of the member of a JSON object that has the given name.
Member(object, name) ==
  {object.parts[i].value : i \in {j \in DOMAIN object.parts : object.parts[j].name = name}}

\* C23: create_user, for every password its validator accepts (a str, empty
\* or not, or None), puts the password in its payload under "password" and
\* under "password_confirmation", and the body of its POST has both members
\* with the same value, the JSON of the password.
C23_PasswordTwice ==
  (op = "create_user" /\ handed # <<>>) =>
    /\ type(args.password) \in {"str", "NoneType"}
    /\ OneRequest("POST")
    /\ HasKey(handed[1].payload, "password") /\ HasKey(handed[1].payload, "password_confirmation")
    /\ GetItem(handed[1].payload, "password") = args.password
    /\ GetItem(handed[1].payload, "password_confirmation") = args.password
    /\ Member(sent[1].data, "password") = {json_dumps(args.password)}
    /\ Member(sent[1].data, "password_confirmation") = {json_dumps(args.password)}

\* create_user("name", "name", "name") posts "name" as password and as
\* password_confirmation.
C23_Witness ==
  /\ op = "create_user" /\ pc = "returned" /\ args.password = PyStr(<<"n", "a", "m", "e">>)
  /\ Len(sent) = 1 /\ sent[1].verb = "POST"
  /\ Member(sent[1].data, "password") = {[json |-> "string", text |-> <<"n", "a", "m", "e">>, parts |-> <<>>]}
  /\ Member(sent[1].data, "password_confirmation") = Member(sent[1].data, "password")

\* The verbs of the five wrappers.
Verbs == {"GET", "POST", "PUT", "PATCH", "DELETE"}

\* C24: no wrapper looks at the status of the response: a call whose request,
\* of any of the five verbs, is answered with a JSON body gets that body,
\* parsed, from its wrapper, with a status of 400 or more as with a status
\* of 200, and no error is raised for the status. (The methods that do not
\* return what their wrapper returns, get_<resource>_by_name and
\* delete_company, are left to C13 and C27.)
C24_StatusIgnored ==
  (pc # "idle" /\ Answered /\ op \notin ByNames \cup {"delete_company"}) =>
    /\ sent[1].verb \in Verbs
    /\ pc = "returned"
    /\ result = Returns(sent[1].resp.body)

\* update_fieldset(2, "name"), answered with status 401 and a JSON body,
\* returns that body.
C24_Witness ==
  /\ op = "update_fieldset" /\ pc = "returned"
  /\ Len(sent) = 1 /\ sent[1].verb = "PUT"
  /\ sent[1].resp.status = 401 /\ sent[1].resp.is_json
  /\ result = Returns(ErrorBody)

\* C25: when the transport raises during the request of a call, the call
\* raises that error to its caller and has made that one request only; no
\* call that raises, for whatever reason, has made more than one request.
C25_NoRetry ==
  /\ (\E i \in DOMAIN sent : sent[i].resp.raised) =>
       pc = "raised" /\ result.exc = "ConnectionError" /\ Len(sent) = 1
  /\ pc = "raised" => Len(sent) <= 1

\* get_asset_by_name("name"), whose list request fails in the transport,
\* raises the transport's error after that one request.
C25_Witness ==
  /\ op = "get_asset_by_name" /\ args.name = PyStr(<<"n", "a", "m", "e">>)
  /\ pc = "raised" /\ result.exc = "ConnectionError"
  /\ Len(sent) = 1 /\ sent[1].resp.raised

\* The call name(**a) made by a client that has made no call before, answered
\* with resp: what it hands to its wrapper.
RequestOf(name, a, resp) ==
  (CASE name = "create_accessory" -> create_accessory(a.name, a.qty, a.category_id, a.order_number, a.purchase_cost, a.purchase_date, a.model_number, a.company_id, a.location_id, a.manufacturer_id, a.supplier_id, resp)
     [] name = "get_accessories" -> get_accessories(a.limit, a.offset, a.search, a.order_number, a.sort, a.order, a.expand, resp)
     [] name = "get_accessory_by_id" -> get_accessory_by_id(a.accessory_id, resp)
     [] name = "get_accessory_by_name" -> get_accessory_by_name(a.name, resp)
     [] name = "create_asset" -> create_asset(a.status_id, a.model_id, a.asset_tag, a.name, resp)
     [] name = "delete_asset" -> delete_asset(a.asset_id, resp)
     [] name = "get_assets" -> get_assets(a.limit, a.offset, a.search, a.order_number, a.sort, a.order, a.model_id, a.category_id, a.manufacturer_id, a.company_id, a.location_id, a.status, a.status_id, resp)
     [] name = "get_asset_by_id" -> get_asset_by_id(a.asset_id, resp)
     [] name = "get_asset_by_name" -> get_asset_by_name(a.name, resp)
     [] name = "get_asset_by_serial" -> get_asset_by_serial(a.asset_serial, resp)
     [] name = "get_asset_by_tag" -> get_asset_by_tag(a.asset_tag, resp)
     [] name = "get_assets_by_status_id" -> get_assets_by_status_id(a.status_label_id, resp)
     [] name = "update_asset" -> update_asset(a.asset_id, a.asset_tag, a.notes, a.status_id, a.model_id, a.last_checkout, a.assigned_to, a.company_id, a.serial, a.order_number, a.warranty_months, a.purchase_cost, a.purchase_date, a.requestable, a.archived, a.rtd_location_id, a.name, resp)
     [] name = "create_category" -> create_category(a.name, a.category_type, a.use_default_eula, a.require_acceptance, a.checkin_email, resp)
     [] name = "delete_category" -> delete_category(a.category_id, resp)
     [] name = "get_categories" -> get_categories(a.limit, a.offset, a.search, a.sort, a.order, resp)
     [] name = "get_category_by_id" -> get_category_by_id(a.category_id, resp)
     [] name = "get_category_by_name" -> get_category_by_name(a.name, resp)
     [] name = "update_category" -> update_category(a.category_id, a.name, a.category_type, a.use_default_eula, a.require_acceptance, a.checkin_email, resp)
     [] name = "create_company" -> create_company(a.name, resp)
     [] name = "delete_company" -> delete_company(a.company_id, resp)
     [] name = "get_companies" -> get_companies(a.search, resp)
     [] name = "get_company_by_id" -> get_company_by_id(a.company_id, resp)
     [] name = "get_company_by_name" -> get_company_by_name(a.name, resp)
     [] name = "update_company" -> update_company(a.company_id, a.name, resp)
     [] name = "create_component" -> create_component(a.name, a.qty, a.category_id, resp)
     [] name = "get_components" -> get_components(a.limit, a.offset, a.search, a.order_number, a.sort, a.order, a.expand, resp)
     [] name = "get_component_by_id" -> get_component_by_id(a.component_id, resp)
     [] name = "get_component_by_name" -> get_component_by_name(a.name, resp)
     [] name = "create_consumable" -> create_consumable(a.name, a.qty, a.category_id, resp)
     [] name = "get_consumables" -> get_consumables(a.limit, a.offset, a.search, a.order_number, a.sort, a.order, a.expand, a.category_id, a.company_id, a.manufacturer_id, resp)
     [] name = "get_consumable_by_id" -> get_consumable_by_id(a.consumable_id, resp)
     [] name = "get_consumable_by_name" -> get_consumable_by_name(a.name, resp)
     [] name = "create_field" -> create_field(a.name, a.element, a.field_values, a.fmt, a.custom_format, a.help_text, a.show_in_email, a.field_encrypted, resp)
     [] name = "delete_field" -> delete_field(a.field_id, resp)
     [] name = "get_fields" -> get_fields(resp)
     [] name = "get_field_by_id" -> get_field_by_id(a.field_id, resp)
     [] name = "get_field_by_name" -> get_field_by_name(a.name, resp)
     [] name = "update_field" -> update_field(a.field_id, a.name, a.element, a.field_values, a.fmt, a.custom_format, a.help_text, a.show_in_email, a.field_encrypted, resp)
     [] name = "create_fieldset" -> create_fieldset(a.name, resp)
     [] name = "delete_fieldset" -> delete_fieldset(a.fieldset_id, resp)
     [] name = "get_fieldsets" -> get_fieldsets(resp)
     [] name = "get_fieldset_by_id" -> get_fieldset_by_id(a.fieldset_id, resp)
     [] name = "get_fieldset_by_name" -> get_fieldset_by_name(a.name, resp)
     [] name = "update_fieldset" -> update_fieldset(a.fieldset_id, a.name, resp)
     [] name = "create_license" -> create_license(a.name, a.seats, a.category_id, a.product_key, a.company_id, a.expiration_date, a.license_email, a.license_name, a.maintained, a.manufacturer_id, a.notes, a.order_number, a.purchase_cost, a.purchase_date, a.purchase_order, a.reassignable, a.serial, a.supplier_id, a.termination_date, resp)
     [] name = "delete_license" -> delete_license(a.license_id, resp)
     [] name = "get_licenses" -> get_licenses(a.limit, a.offset, a.search, a.order_number, a.sort, a.order, a.expand, resp)
     [] name = "get_license_by_id" -> get_license_by_id(a.license_id, resp)
     [] name = "get_license_by_name" -> get_license_by_name(a.name, resp)
     [] name = "update_license" -> update_license(a.license_id, a.name, a.seats, a.company_id, a.expiration_date, a.license_email, a.license_name, a.maintained, a.manufacturer_id, a.notes, a.order_number, a.purchase_cost, a.purchase_date, a.purchase_order, a.reassignable, a.serial, a.supplier_id, a.termination_date, resp)
     [] name = "create_location" -> create_location(a.name, a.address, a.address2, a.city, a.state, a.country, a.zipcode, resp)
     [] name = "delete_location" -> delete_location(a.location_id, resp)
     [] name = "get_locations" -> get_locations(a.limit, a.offset, a.search, a.sort, a.order, resp)
     [] name = "get_location_by_id" -> get_location_by_id(a.location_id, resp)
     [] name = "get_location_by_name" -> get_location_by_name(a.name, resp)
     [] name = "update_location" -> update_location(a.location_id, a.name, a.address, a.address2, a.city, a.state, a.country, a.zipcode, resp)
     [] name = "create_maintenace" -> create_maintenace(a.name, a.address, a.address2, a.state, a.country, a.zipcode, resp)
     [] name = "get_maintenaces" -> get_maintenaces(a.limit, a.offset, a.search, a.sort, a.order, a.asset_id, resp)
     [] name = "create_manufacturer" -> create_manufacturer(a.name, resp)
     [] name = "delete_manufacturer" -> delete_manufacturer(a.manufacturer_id, resp)
     [] name = "get_manufacturers" -> get_manufacturers(a.search, resp)
     [] name = "get_manufacturer_by_id" -> get_manufacturer_by_id(a.manufacturer_id, resp)
     [] name = "get_manufacturer_by_name" -> get_manufacturer_by_name(a.name, resp)
     [] name = "update_manufacturer" -> update_manufacturer(a.manufacturer_id, a.name, resp)
     [] name = "create_model" -> create_model(a.name, a.category_id, a.manufacturer_id, a.model_number, a.eol, a.fieldset_id, resp)
     [] name = "delete_model" -> delete_model(a.model_id, resp)
     [] name = "get_models" -> get_models(a.limit, a.offset, a.search, a.sort, a.order, resp)
     [] name = "get_model_by_id" -> get_model_by_id(a.model_id, resp)
     [] name = "get_model_by_name" -> get_model_by_name(a.name, resp)
     [] name = "update_model" -> update_model(a.model_id, a.name, a.category_id, a.manufacturer_id, a.model_number, a.eol, a.fieldset_id, resp)
     [] name = "create_status_label" -> create_status_label(a.name, a.type_name, resp)
     [] name = "delete_status_label" -> delete_status_label(a.status_label_id, resp)
     [] name = "get_status_labels" -> get_status_labels(a.limit, a.offset, a.search, a.sort, a.order, resp)
     [] name = "get_status_label_by_id" -> get_status_label_by_id(a.status_label_id, resp)
     [] name = "update_status_label" -> update_status_label(a.status_label_id, a.name, a.type_name, resp)
     [] name = "create_user" -> create_user(a.first_name, a.username, a.password, a.last_name, a.email, a.permissions, a.activated, a.phone, a.jobtitle, a.manager_id, a.employee_num, a.notes, a.company_id, a.two_factor_enrolled, a.two_factor_optin, a.department_id, a.location_id, resp)
     [] name = "delete_user" -> delete_user(a.user_id, resp)
     [] name = "get_users" -> get_users(a.search, a.limit, a.offset, a.sort, a.order, a.group_id, a.company_id, a.department_id, a.deleted, resp)
     [] name = "get_user_by_id" -> get_user_by_id(a.user_id, resp)
     [] name = "get_user_by_name" -> get_user_by_name(a.name, resp)
     [] name = "get_users_checked_out_assets" -> get_users_checked_out_assets(a.user_id, resp)
     [] name = "get_users_checked_out_accessories" -> get_users_checked_out_accessories(a.user_id, resp)
     [] name = "update_user" -> update_user(a.user_id, a.first_name, a.username, a.password, a.last_name, a.email, a.permissions, a.activated, a.phone, a.jobtitle, a.manager_id, a.employee_num, a.notes, a.company_id, a.two_factor_enrolled, a.two_factor_optin, a.department_id, a.location_id, resp)
     [] name = "create_supplier" -> create_supplier(a.name, a.address, a.address2, a.state, a.city, a.country, a.zipcode, a.contact, a.phone, a.fax, a.email, a.url, a.notes, resp)
     [] name = "delete_supplier" -> delete_supplier(a.supplier_id, resp)
     [] name = "get_suppliers" -> get_suppliers(resp)
     [] name = "get_supplier_by_id" -> get_supplier_by_id(a.supplier_id, resp)
     [] name = "get_supplier_by_name" -> get_supplier_by_name(a.name, resp)
     [] name = "update_supplier" -> update_supplier(a.supplier_id, a.name, a.address, a.address2, a.state, a.city, a.country, a.zipcode, a.contact, a.phone, a.fax, a.email, a.url, a.notes, resp)).handed

\* Between two calls the client holds its server, token and headers and
\* nothing of the call that ended.
NothingKept ==
  /\ SessionAsConstructed
  /\ op = "" /\ args = <<>> /\ dct = PyDict(<<>>)
  /\ handed = <<>> /\ sent = <<>> /\ result = Returns(None)

C27_NoRowsRaises ==
  op \in ByNames =>
    /\ (Answered /\ ~HasKey(sent[1].resp.body, "rows")) =>
         pc = "raised" /\ result = Raises("KeyError", format("rows", <<>>))
    /\ (pc = "returned" /\ result = Returns(None)) =>
         /\ Answered /\ HasKey(sent[1].resp.body, "rows")
         /\ \A i \in DOMAIN RowsAnswered : GetItem(RowsAnswered[i], "name") # args.name

\* get_asset_by_name("name"), answered with the error body of status 401,
\* raises KeyError('rows').
C27_Witness ==
  /\ op = "get_asset_by_name" /\ args.name = PyStr(<<"n", "a", "m", "e">>)
  /\ Len(sent) = 1 /\ sent[1].resp = Response(401, ErrorBody)
  /\ pc = "raised" /\ result.exc = "KeyError"

OptionalOnlyUpdates == {"update_asset", "update_license", "update_location", "update_user"}

\* C29: update_asset, update_license, update_location and update_user, called
\* with an int id and every other argument None, still make one PATCH to
\* /api/v1/<resource-path>/<id>; their payload is the empty dict and the
\* request goes out with no body and no params, not with the body {}.
C29_EmptyUpdate ==
  (op \in OptionalOnlyUpdates /\ IntId /\ \A q \in DOMAIN args \ {Resource.id} : args[q] = None) =>
    /\ OneRequest("PATCH") /\ PathOfId
    /\ handed[1].payload = PyDict(<<>>)
    /\ sent[1].data = Absent /\ sent[1].params = Absent
    /\ sent[1].data # json_dumps(PyDict(<<>>))

\* update_location(2) makes one PATCH to /api/v1/locations/2 without a body.
C29_Witness ==
  /\ op = "update_location" /\ pc = "returned"
  /\ args.location_id = PyInt(2) /\ \A q \in DOMAIN args \ {"location_id"} : args[q] = None
  /\ Len(sent) = 1 /\ sent[1].verb = "PATCH" /\ sent[1].data = Absent
  /\ handed[1].path = [fmt |-> "/api/v1/locations/{}", args |-> <<<<"2">>>>]

\* The methods that list a resource.
ListMethods ==
  {"get_accessories", "get_assets", "get_categories", "get_companies", "get_components",
   "get_consumables", "get_fields", "get_fieldsets", "get_licenses", "get_locations",
   "get_maintenaces", "get_manufacturers", "get_models", "get_status_labels", "get_users",
   "get_suppliers"}

\* C30: a list method other than get_accessories, called with every filter
\* None, makes its GET without params. get_accessories hands _get the str()
\* of its params, a str that is never empty ("{}" when every filter is None),
\* so every GET it makes carries params, and they are the JSON of that str, a
\* JSON string and not a JSON object.
C30_ListParams ==
  /\ (op \in ListMethods \ {"get_accessories"} /\ pc # "idle" /\ \A q \in DOMAIN args : args[q] = None) =>
       OneRequest("GET") /\ sent[1].params = Absent /\ sent[1].data = Absent
  /\ (op = "get_accessories" /\ handed # <<>>) =>
       LET p == handed[1].payload
       IN /\ OneRequest("GET")
          /\ p.kind = "str" /\ Len(p.s) >= 2 /\ Head(p.s) = "{" /\ p.s[Len(p.s)] = "}"
          /\ (\A q \in DOMAIN args : args[q] \in Falsy) => p = PyStr(<<"{", "}">>)
          /\ sent[1].params = [json |-> "string", text |-> p.s, parts |-> <<>>]
          /\ sent[1].params # Absent /\ sent[1].params.json # "object"

\* get_accessories() sends the JSON string "{}" as params.
C30_Witness ==
  /\ op = "get_accessories" /\ pc = "returned" /\ \A q \in DOMAIN args : args[q] = None
  /\ Len(sent) = 1 /\ sent[1].verb = "GET"
  /\ handed[1].payload = PyStr(<<"{", "}">>)
  /\ sent[1].params = [json |-> "string", text |-> <<"{", "}">>, parts |-> <<>>]

====
